---- MODULE Spec2Model ----
(***************************************************************************)
(* The splat PLY decoder of src/wasm/src/ply_splat_core.rs as a state      *)
(* machine: one call of parse_splat_ply_core_with_opts on a byte buffer.   *)
(*                                                                         *)
(* A buffer is a sequence of bytes 0..255 (Rust offset k is index k+1).    *)
(* An f32/f64 value is an extended rational [n, d]: n/d with d > 0 in      *)
(* lowest terms, +inf = 1/0, -inf = -1/0, NaN = 0/0.  Arithmetic on        *)
(* finite values is exact (binary rounding, overflow to infinity of a      *)
(* finite result, and the sign of zero are not represented); exp is        *)
(* tabulated on the values the inputs draw.                                *)
(* usize is UsizeBits wide; a u32 pixel is a pair of 16-bit halves.        *)
(***************************************************************************)
EXTENDS Integers, Sequences, FiniteSets, TLC

----------------------------------------------------------------------------
(* String literals of the source, as bytes. *)
W ==
  [
      ply |-> <<112, 108, 121>>,
      comment |-> <<99, 111, 109, 109, 101, 110, 116>>,
      obj_info |-> <<111, 98, 106, 95, 105, 110, 102, 111>>,
      format |-> <<102, 111, 114, 109, 97, 116>>,
      ascii |-> <<97, 115, 99, 105, 105>>,
      binary_little_endian |-> <<98, 105, 110, 97, 114, 121, 95, 108, 105, 116, 116, 108, 101, 95, 101, 110, 100, 105, 97, 110>>,
      binary_big_endian |-> <<98, 105, 110, 97, 114, 121, 95, 98, 105, 103, 95, 101, 110, 100, 105, 97, 110>>,
      element |-> <<101, 108, 101, 109, 101, 110, 116>>,
      property |-> <<112, 114, 111, 112, 101, 114, 116, 121>>,
      list |-> <<108, 105, 115, 116>>,
      char |-> <<99, 104, 97, 114>>,
      uchar |-> <<117, 99, 104, 97, 114>>,
      short |-> <<115, 104, 111, 114, 116>>,
      ushort |-> <<117, 115, 104, 111, 114, 116>>,
      int |-> <<105, 110, 116>>,
      uint |-> <<117, 105, 110, 116>>,
      float |-> <<102, 108, 111, 97, 116>>,
      double |-> <<100, 111, 117, 98, 108, 101>>,
      vertex |-> <<118, 101, 114, 116, 101, 120>>,
      x |-> <<120>>,
      pos_x |-> <<112, 111, 115, 95, 120>>,
      position_x |-> <<112, 111, 115, 105, 116, 105, 111, 110, 95, 120>>,
      y |-> <<121>>,
      pos_y |-> <<112, 111, 115, 95, 121>>,
      position_y |-> <<112, 111, 115, 105, 116, 105, 111, 110, 95, 121>>,
      z |-> <<122>>,
      pos_z |-> <<112, 111, 115, 95, 122>>,
      position_z |-> <<112, 111, 115, 105, 116, 105, 111, 110, 95, 122>>,
      scale_0 |-> <<115, 99, 97, 108, 101, 95, 48>>,
      sx |-> <<115, 120>>,
      scale_x |-> <<115, 99, 97, 108, 101, 95, 120>>,
      scalex |-> <<115, 99, 97, 108, 101, 120>>,
      scale_1 |-> <<115, 99, 97, 108, 101, 95, 49>>,
      sy |-> <<115, 121>>,
      scale_y |-> <<115, 99, 97, 108, 101, 95, 121>>,
      scaley |-> <<115, 99, 97, 108, 101, 121>>,
      scale_2 |-> <<115, 99, 97, 108, 101, 95, 50>>,
      sz |-> <<115, 122>>,
      scale_z |-> <<115, 99, 97, 108, 101, 95, 122>>,
      scalez |-> <<115, 99, 97, 108, 101, 122>>,
      rot_0 |-> <<114, 111, 116, 95, 48>>,
      rot_1 |-> <<114, 111, 116, 95, 49>>,
      rot_2 |-> <<114, 111, 116, 95, 50>>,
      rot_3 |-> <<114, 111, 116, 95, 51>>,
      qx |-> <<113, 120>>,
      qy |-> <<113, 121>>,
      qz |-> <<113, 122>>,
      qw |-> <<113, 119>>,
      opacity |-> <<111, 112, 97, 99, 105, 116, 121>>,
      alpha |-> <<97, 108, 112, 104, 97>>,
      opac |-> <<111, 112, 97, 99>>,
      red |-> <<114, 101, 100>>,
      r |-> <<114>>,
      green |-> <<103, 114, 101, 101, 110>>,
      g |-> <<103>>,
      blue |-> <<98, 108, 117, 101>>,
      b |-> <<98>>,
      f_dc_0 |-> <<102, 95, 100, 99, 95, 48>>,
      f_dc_1 |-> <<102, 95, 100, 99, 95, 49>>,
      f_dc_2 |-> <<102, 95, 100, 99, 95, 50>>,
      inf |-> <<105, 110, 102>>,
      infinity |-> <<105, 110, 102, 105, 110, 105, 116, 121>>,
      nan |-> <<110, 97, 110>>,
      end_header |-> <<101, 110, 100, 95, 104, 101, 97, 100, 101, 114>>
  ]

\* const PAT of find_header_end.
PAT == W.end_header

LF == 10
CR == 13
SP == <<32>>

----------------------------------------------------------------------------
(* f32 / f64 values and their arithmetic. *)

RECURSIVE Gcd(_, _)
Gcd(a, b) == IF b = 0 THEN a ELSE Gcd(b, a % b)

Abs(n) == IF n < 0 THEN -n ELSE n

Sign(n) == IF n > 0 THEN 1 ELSE IF n < 0 THEN -1 ELSE 0

\* n/d with d >= 0, brought to lowest terms; d = 0 gives an infinity or NaN.
Q(n, d) ==
  IF d = 0 THEN [n |-> Sign(n), d |-> 0]
  ELSE IF n = 0 THEN [n |-> 0, d |-> 1]
  ELSE LET g == Gcd(Abs(n), d) IN [n |-> n \div g, d |-> d \div g]

NaN == [n |-> 0, d |-> 0]
Inf == [n |-> 1, d |-> 0]
NegInf == [n |-> -1, d |-> 0]
Zero == [n |-> 0, d |-> 1]
One == [n |-> 1, d |-> 1]
I2F(k) == [n |-> k, d |-> 1]

IsNaN(a) == a.d = 0 /\ a.n = 0
IsFinite(a) == a.d # 0

FNeg(a) == [n |-> -a.n, d |-> a.d]

FMul(a, b) == Q(a.n * b.n, a.d * b.d)

FAdd(a, b) ==
  IF a.d # 0 /\ b.d # 0 THEN Q(a.n * b.d + b.n * a.d, a.d * b.d)
  ELSE IF IsNaN(a) \/ IsNaN(b) THEN NaN
  ELSE IF a.d = 0 /\ b.d = 0 THEN (IF a.n = b.n THEN a ELSE NaN)
  ELSE IF a.d = 0 THEN a ELSE b

FSub(a, b) == FAdd(a, FNeg(b))

FRecip(b) ==
  IF b.d = 0 THEN (IF b.n = 0 THEN NaN ELSE Zero)
  ELSE IF b.n = 0 THEN Inf
  ELSE Q(Sign(b.n) * b.d, Abs(b.n))

FDiv(a, b) == FMul(a, FRecip(b))

\* a <= b, a < b on f32: false when either side is NaN.
FLe(a, b) ==
  /\ ~IsNaN(a) /\ ~IsNaN(b)
  /\ IF a.d # 0 /\ b.d # 0 THEN a.n * b.d <= b.n * a.d
     ELSE IF a.d = 0 THEN (a.n < 0 \/ b = a) ELSE b.n > 0

FLt(a, b) == FLe(a, b) /\ a # b
FGe(a, b) == FLe(b, a)
FGt(a, b) == FLt(b, a)

\* f32::min, f32::max: a NaN operand is ignored.
FMin(a, b) == IF IsNaN(a) THEN b ELSE IF IsNaN(b) THEN a ELSE IF FLe(a, b) THEN a ELSE b
FMax(a, b) == IF IsNaN(a) THEN b ELSE IF IsNaN(b) THEN a ELSE IF FLe(a, b) THEN b ELSE a

\* floor of a finite value, as an integer.
FFloor(a) == a.n \div a.d

----------------------------------------------------------------------------
(* Text: what str::from_utf8, split, trim, split_whitespace, to_lowercase  *)
(* and str::parse do on the bytes of a buffer.                            *)

Range(s) == {s[k] : k \in DOMAIN s}

\* char::is_whitespace on an ASCII byte.
IsWs(c) == c \in {9, 10, 11, 12, 13, 32}

IsDigit(c) == c >= 48 /\ c <= 57

IsCont(c) == c >= 128 /\ c <= 191

\* The continuation bytes a lead byte asks for (0: not a lead byte).
Utf8Need(c) ==
  IF c >= 194 /\ c <= 223 THEN 1
  ELSE IF c >= 224 /\ c <= 239 THEN 2
  ELSE IF c >= 240 /\ c <= 244 THEN 3
  ELSE 0

\* core::str::from_utf8(s).is_ok(): every byte is ASCII, or a lead byte with
\* its continuation bytes (the first one in the lead's range), or one of those.
Utf8Valid(s) ==
  \A i \in DOMAIN s :
    LET c == s[i] IN
      \/ c < 128
      \/ /\ Utf8Need(c) > 0
         /\ i + Utf8Need(c) <= Len(s)
         /\ \A k \in 1..Utf8Need(c) : IsCont(s[i + k])
         /\ (c = 224 => s[i + 1] >= 160)
         /\ (c = 237 => s[i + 1] <= 159)
         /\ (c = 240 => s[i + 1] >= 144)
         /\ (c = 244 => s[i + 1] <= 143)
      \/ /\ IsCont(c)
         /\ \E k \in 1..3 :
              /\ i - k >= 1
              /\ Utf8Need(s[i - k]) >= k
              /\ \A j \in 1..(k - 1) : IsCont(s[i - j])

\* str::to_lowercase on ASCII text.
ToLowercase(s) == [k \in DOMAIN s |-> IF s[k] >= 65 /\ s[k] <= 90 THEN s[k] + 32 ELSE s[k]]

\* The members of a set of integers in increasing order.
Sorted(S) == [k \in 1..Cardinality(S) |-> CHOOSE x \in S : Cardinality({y \in S : y < x}) = k - 1]

\* str::trim: leading and trailing whitespace removed.
Trim(s) ==
  LET keep == {i \in DOMAIN s : ~IsWs(s[i])}
      first == CHOOSE i \in keep : \A j \in keep : i <= j
      last == CHOOSE i \in keep : \A j \in keep : j <= i
  IN  IF keep = {} THEN <<>> ELSE SubSeq(s, first, last)

\* str::split(sep): the pieces between the occurrences of sep, empty ones kept
\* (for a separator that cannot overlap itself: "\n", "\r\n").
Split(s, sep) ==
  LET at == Sorted({i \in 1..(Len(s) - Len(sep) + 1) : SubSeq(s, i, i + Len(sep) - 1) = sep})
      n == Len(at)
  IN  [k \in 1..(n + 1) |->
         SubSeq(s, IF k = 1 THEN 1 ELSE at[k - 1] + Len(sep), IF k = n + 1 THEN Len(s) ELSE at[k] - 1)]

\* str::split_whitespace: the maximal runs of non-whitespace, in order.
SplitWhitespace(s) ==
  LET starts == Sorted({i \in DOMAIN s : ~IsWs(s[i]) /\ (i = 1 \/ IsWs(s[i - 1]))})
      ends == Sorted({i \in DOMAIN s : ~IsWs(s[i]) /\ (i = Len(s) \/ IsWs(s[i + 1]))})
  IN  [k \in DOMAIN starts |-> SubSeq(s, starts[k], ends[k])]

\* The value of a run of decimal digits.
RECURSIVE DigitsVal(_)
DigitsVal(s) == IF s = <<>> THEN 0 ELSE DigitsVal(SubSeq(s, 1, Len(s) - 1)) * 10 + (s[Len(s)] - 48)

AllDigits(s) == \A k \in DOMAIN s : IsDigit(s[k])

RECURSIVE Pow(_, _)
Pow(b, k) == IF k = 0 THEN 1 ELSE b * Pow(b, k - 1)

\* The machine word: usize is UsizeBits wide, isize one bit less.
UsizeBits == 16
UsizeMax == Pow(2, UsizeBits) - 1
IsizeMax == Pow(2, UsizeBits - 1) - 1

\* The value of a run of digits, or some value above cap when it exceeds cap.
RECURSIVE DigitsValCap(_, _)
DigitsValCap(s, cap) ==
  IF s = <<>> THEN 0
  ELSE LET v == DigitsValCap(SubSeq(s, 1, Len(s) - 1), cap)
       IN  IF v > cap THEN v ELSE v * 10 + (s[Len(s)] - 48)

\* str::parse::<usize>: an optional '+', then one or more digits, no overflow.
ParseUsize(tok) ==
  LET ds == IF tok # <<>> /\ tok[1] = 43 THEN Tail(tok) ELSE tok
      v == DigitsValCap(ds, UsizeMax)
  IN  IF ds # <<>> /\ AllDigits(ds) /\ v <= UsizeMax
        THEN [ok |-> TRUE, v |-> v]
        ELSE [ok |-> FALSE, v |-> 0]

\* The first index of s holding a byte of cs, or 0.
RECURSIVE IndexFrom(_, _, _)
IndexFrom(s, cs, i) ==
  IF i > Len(s) THEN 0 ELSE IF s[i] \in cs THEN i ELSE IndexFrom(s, cs, i + 1)

\* str::parse::<f32>: [sign] (inf | infinity | nan | digits[.digits][e[sign]digits]).
ParseF32(tok) ==
  LET signed == tok # <<>> /\ tok[1] \in {43, 45}
      neg == signed /\ tok[1] = 45
      r == IF signed THEN Tail(tok) ELSE tok
      low == ToLowercase(r)
      ePos == IndexFrom(r, {69, 101}, 1)
      mant == IF ePos = 0 THEN r ELSE SubSeq(r, 1, ePos - 1)
      ex == IF ePos = 0 THEN <<>> ELSE SubSeq(r, ePos + 1, Len(r))
      exSigned == ex # <<>> /\ ex[1] \in {43, 45}
      exNeg == exSigned /\ ex[1] = 45
      exDs == IF exSigned THEN Tail(ex) ELSE ex
      dot == IndexFrom(mant, {46}, 1)
      ip == IF dot = 0 THEN mant ELSE SubSeq(mant, 1, dot - 1)
      fp == IF dot = 0 THEN <<>> ELSE SubSeq(mant, dot + 1, Len(mant))
      okMant == AllDigits(ip) /\ AllDigits(fp) /\ Len(ip) + Len(fp) >= 1
      okExp == ePos = 0 \/ (exDs # <<>> /\ AllDigits(exDs))
      m == DigitsVal(ip \o fp)
      e == IF ePos = 0 THEN 0 ELSE DigitsVal(exDs)
      num == IF exNeg THEN m ELSE m * Pow(10, e)
      den == IF exNeg THEN Pow(10, Len(fp) + e) ELSE Pow(10, Len(fp))
      mag == Q(num, den)
  IN  IF low = W.inf \/ low = W.infinity
        THEN [ok |-> TRUE, v |-> IF neg THEN NegInf ELSE Inf]
      ELSE IF low = W.nan THEN [ok |-> TRUE, v |-> NaN]
      ELSE IF okMant /\ okExp
        THEN [ok |-> TRUE, v |-> IF neg THEN FNeg(mag) ELSE mag]
      ELSE [ok |-> FALSE, v |-> NaN]

----------------------------------------------------------------------------
(* PlyScalarType *)

PlyScalarTypes == {"Char", "UChar", "Short", "UShort", "Int", "UInt", "Float", "Double"}

\* PlyScalarType::parse: the type a token names, or "None".
ScalarTypeParse(tok) ==
  CASE tok = W.char -> "Char"
    [] tok = W.uchar -> "UChar"
    [] tok = W.short -> "Short"
    [] tok = W.ushort -> "UShort"
    [] tok = W.int -> "Int"
    [] tok = W.uint -> "UInt"
    [] tok = W.float -> "Float"
    [] tok = W.double -> "Double"
    [] OTHER -> "None"

SizeBytes(ty) ==
  CASE ty \in {"Char", "UChar"} -> 1
    [] ty \in {"Short", "UShort"} -> 2
    [] ty \in {"Int", "UInt", "Float"} -> 4
    [] ty = "Double" -> 8

IsProbablyByteColor(ty) == ty \in {"Char", "UChar"}

----------------------------------------------------------------------------
(* Results.  A call ends Ok with the buffers, Err with a message, or it    *)
(* panics (the process aborts; no value is returned).                      *)

Err(m) == [kind |-> "Err", msg |-> m]
Panic(m) == [kind |-> "Panic", msg |-> m]
Pending == [kind |-> "Pending"]

E_HeaderMalformed == "PLY: can't find end_header"
E_HeaderEncoding == "PLY: header is not valid utf-8"
E_HeaderMagic == "PLY: first line must be \"ply\""
E_UnsupportedFormat == "PLY: unsupported format"
E_BadElement == "PLY: bad element"
E_BadElementCount == "PLY: bad element count"
E_PropertyBeforeElement == "PLY: property before element"
E_BadProperty == "PLY: bad property"
E_BadListProperty == "PLY: bad list property"
E_BadListType == "PLY: bad list type"
E_BadScalarType == "PLY: bad scalar type"
E_BadScalarProperty == "PLY: bad scalar property"
E_UnknownDirective == "PLY: unknown header directive"
E_MissingFormat == "PLY: missing format"
E_VertexNotFound == "PLY: element \"vertex\" not found"
E_UnsupportedListProperty ==
  "PLY: vertex has list properties - not supported by this minimal splat parser"
E_Truncated == "PLY: out of bounds while reading binary data"

----------------------------------------------------------------------------
(* find_header_end *)

\* A variant of HeaderEndsAt that takes a lone CR for a terminator.
HeaderEndsAt_LoneCr(bytes, i) ==
  /\ SubSeq(bytes, i + 1, i + Len(PAT)) = PAT
  /\ LET k == i + Len(PAT) IN
       \/ k < Len(bytes) /\ bytes[k + 1] = LF
       \/ k + 1 < Len(bytes) /\ bytes[k + 1] = CR

\* The loop of find_header_end returns at offset i.
HeaderEndsAt(bytes, i) ==
  /\ SubSeq(bytes, i + 1, i + Len(PAT)) = PAT
  /\ LET k == i + Len(PAT) IN
       \/ k < Len(bytes) /\ bytes[k + 1] = LF
       \/ k + 1 < Len(bytes) /\ bytes[k + 1] = CR /\ bytes[k + 2] = LF

\* What find_header_end returns from inside its loop at offset i.
HeaderEndAt(bytes, i) ==
  IF bytes[i + Len(PAT) + 1] = LF
    THEN [ok |-> TRUE, end |-> i + Len(PAT) + 1, newline |-> "Lf"]
    ELSE [ok |-> TRUE, end |-> i + Len(PAT) + 2, newline |-> "CrLf"]

\* find_header_end: the first offset of 0..=len - PAT.len() the loop returns
\* at, or the error after the loop.
FindHeaderEnd(bytes) ==
  LET First(hits) ==
        IF Len(bytes) < Len(PAT) \/ hits = {} THEN [ok |-> FALSE, end |-> 0, newline |-> "None"]
        ELSE HeaderEndAt(bytes, CHOOSE h \in hits : \A j \in hits : h <= j)
  IN  First({i \in 0..(Len(bytes) - Len(PAT)) : HeaderEndsAt(bytes, i)})

----------------------------------------------------------------------------
(* parse_header *)

ScalarProp(name, ty) == [kind |-> "Scalar", name |-> name, ty |-> ty]
ListProp(name, cty, ity) == [kind |-> "List", name |-> name, count_ty |-> cty, item_ty |-> ity]
PlyElement(name, count) == [name |-> name, count |-> count, properties |-> <<>>]

\* Option values are sequences of length 0 (None) or 1 (Some).
None == <<>>
Some(v) == <<v>>

\* it.next() for the k-th time on the tokens of a line.
Nth(it, k) == IF k <= Len(it) THEN Some(it[k]) ELSE None

\* The header up to the loop: the sentinel, the text, its lines, the magic.
\* Ok gives the loop's initial state.
HeaderBegin(bytes) ==
  LET Lines(f, header_text, lines) ==
        IF ~f.ok THEN [err |-> E_HeaderMalformed]
        ELSE IF ~Utf8Valid(header_text) THEN [err |-> E_HeaderEncoding]
        ELSE IF lines = <<>> \/ lines[1] # W.ply THEN [err |-> E_HeaderMagic]
        ELSE [err |-> "", header_end |-> f.end, newline |-> f.newline, lines |-> lines,
              li |-> 2, format |-> "None", elements |-> <<>>, current |-> None]
      Kept(raw) == SelectSeq([k \in DOMAIN raw |-> Trim(raw[k])], LAMBDA l : l # <<>>)
      Text(f, header_text) ==
        Lines(f, header_text,
              Kept(Split(header_text, IF f.newline = "Lf" THEN <<LF>> ELSE <<CR, LF>>)))
      Found(f) == Text(f, SubSeq(bytes, 1, f.end))
  IN  Found(FindHeaderEnd(bytes))

\* The loop must stop before line li: no line is left, or it is end_header.
HeaderLoopDone(st) == st.li > Len(st.lines) \/ st.lines[st.li] = W.end_header

Fail(st, m) == [st EXCEPT !.err = m]

\* One iteration of the loop over the header lines, on line st.li.
HeaderLine(st) ==
  LET it == SplitWhitespace(st.lines[st.li])
      tag == IF it = <<>> THEN <<>> ELSE it[1]
      nx == [st EXCEPT !.li = st.li + 1]
  IN
  IF tag = W.comment \/ tag = W.obj_info THEN nx
  ELSE IF tag = W.format THEN
    LET fmt == IF Len(it) >= 2 THEN it[2] ELSE <<>> IN
    IF fmt = W.ascii THEN [nx EXCEPT !.format = "Ascii"]
    ELSE IF fmt = W.binary_little_endian THEN [nx EXCEPT !.format = "BinaryLittleEndian"]
    ELSE IF fmt = W.binary_big_endian THEN [nx EXCEPT !.format = "BinaryBigEndian"]
    ELSE Fail(st, E_UnsupportedFormat)
  ELSE IF tag = W.element THEN
    LET taken == [nx EXCEPT !.elements = st.elements \o st.current, !.current = None]
        count == IF Len(it) >= 3 THEN ParseUsize(it[3]) ELSE [ok |-> FALSE, v |-> 0]
    IN  IF Nth(it, 2) = None THEN Fail(st, E_BadElement)
        ELSE IF Nth(it, 3) = None \/ ~count.ok THEN Fail(st, E_BadElementCount)
        ELSE [taken EXCEPT !.current = Some(PlyElement(it[2], count.v))]
  ELSE IF tag = W.property THEN
    IF st.current = None THEN Fail(st, E_PropertyBeforeElement)
    ELSE IF Nth(it, 2) = None THEN Fail(st, E_BadProperty)
    ELSE IF it[2] = W.list THEN
      IF Len(it) < 5 THEN Fail(st, E_BadListProperty)
      ELSE IF ScalarTypeParse(it[3]) = "None" \/ ScalarTypeParse(it[4]) = "None"
        THEN Fail(st, E_BadListType)
      ELSE [nx EXCEPT !.current[1].properties =
              Append(@, ListProp(it[5], ScalarTypeParse(it[3]), ScalarTypeParse(it[4])))]
    ELSE IF ScalarTypeParse(it[2]) = "None" THEN Fail(st, E_BadScalarType)
    ELSE IF Nth(it, 3) = None THEN Fail(st, E_BadScalarProperty)
    ELSE [nx EXCEPT !.current[1].properties = Append(@, ScalarProp(it[3], ScalarTypeParse(it[2])))]
  ELSE Fail(st, E_UnknownDirective)

\* A variant of HeaderEnd that returns the closed elements only.
HeaderEnd_NoFlush(st) ==
  IF st.format = "None" THEN [err |-> E_MissingFormat]
  ELSE [err |-> "", format |-> st.format, elements |-> st.elements,
        data_offset |-> st.header_end, newline |-> st.newline]

\* After the loop: the open element is flushed and the format must be known.
HeaderEnd(st) ==
  IF st.format = "None" THEN [err |-> E_MissingFormat]
  ELSE [err |-> "", format |-> st.format, elements |-> st.elements \o st.current,
        data_offset |-> st.header_end, newline |-> st.newline]

RECURSIVE HeaderLoop(_)
HeaderLoop(st) ==
  IF st.err # "" THEN st
  ELSE IF HeaderLoopDone(st) THEN st
  ELSE HeaderLoop(HeaderLine(st))

\* parse_header(bytes): [err |-> message] or the ParsedHeader with err = "".
ParseHeader(bytes) ==
  LET After(l) == IF l.err # "" THEN [err |-> l.err] ELSE HeaderEnd(l)
  IN  After(HeaderLoop(HeaderBegin(bytes)))

----------------------------------------------------------------------------
(* Field resolution: parse_splat_ply_core_with_opts up to the allocation.  *)

NAMES_X == <<W.x, W.pos_x, W.position_x>>
NAMES_Y == <<W.y, W.pos_y, W.position_y>>
NAMES_Z == <<W.z, W.pos_z, W.position_z>>
NAMES_S0 == <<W.scale_0, W.sx, W.scale_x, W.scalex>>
NAMES_S1 == <<W.scale_1, W.sy, W.scale_y, W.scaley>>
NAMES_S2 == <<W.scale_2, W.sz, W.scale_z, W.scalez>>
NAMES_OPACITY == <<W.opacity, W.alpha, W.opac>>
NAMES_R == <<W.red, W.r>>
NAMES_G == <<W.green, W.g>>
NAMES_B == <<W.blue, W.b>>

\* A variant of Insert that keeps the entry a key already has.
Insert_KeepsFirst(map, key, val) == map @@ (key :> val)

\* HashMap::insert: the entry for key is set, replacing an earlier one.
Insert(map, key, val) == (key :> val) @@ map

EmptyMap == [k \in {} |-> 0]

\* A variant of FindVertex that compares the name as it is written.
FindVertex_CaseSensitive(elements, k) ==
  IF \E j \in k..Len(elements) : elements[j].name = W.vertex
    THEN Some(elements[CHOOSE j \in k..Len(elements) :
                         /\ elements[j].name = W.vertex
                         /\ \A h \in k..(j - 1) : elements[h].name # W.vertex])
  ELSE None

\* header.elements.iter().find(|e| e.name.to_lowercase() == "vertex")
RECURSIVE FindVertex(_, _)
FindVertex(elements, k) ==
  IF k > Len(elements) THEN None
  ELSE IF ToLowercase(elements[k].name) = W.vertex THEN Some(elements[k])
  ELSE FindVertex(elements, k + 1)

\* A variant of HasListProperty that looks at the last property only.
HasListProperty_LastOnly(el) ==
  el.properties # <<>> /\ el.properties[Len(el.properties)].kind = "List"

\* vertex.properties.iter().any(|p| matches!(p, PlyProperty::List { .. }))
HasListProperty(el) == \E k \in DOMAIN el.properties : el.properties[k].kind = "List"

\* pmap after the inserts for properties k.. of el: lowercased name -> (index, type).
RECURSIVE BuildPmap(_, _, _)
BuildPmap(props, k, map) ==
  IF k > Len(props) THEN map
  ELSE IF props[k].kind = "Scalar"
    THEN BuildPmap(props, k + 1, Insert(map, ToLowercase(props[k].name), <<k - 1, props[k].ty>>))
  ELSE BuildPmap(props, k + 1, map)

\* pick_name: the entry of the first candidate name the map holds.
RECURSIVE PickNameFrom(_, _, _)
PickNameFrom(map, names, k) ==
  IF k > Len(names) THEN None
  ELSE IF ToLowercase(names[k]) \in DOMAIN map THEN Some(map[ToLowercase(names[k])])
  ELSE PickNameFrom(map, names, k + 1)

\* A variant of PickName that takes the last candidate name the map holds.
PickName_LastCandidate(map, names) ==
  IF \A k \in DOMAIN names : ToLowercase(names[k]) \notin DOMAIN map THEN None
  ELSE Some(map[ToLowercase(names[CHOOSE k \in DOMAIN names :
                                    /\ ToLowercase(names[k]) \in DOMAIN map
                                    /\ \A j \in DOMAIN names :
                                         ToLowercase(names[j]) \in DOMAIN map => j <= k])])

PickName(map, names) == PickNameFrom(map, names, 1)

AllSome(opts) == \A k \in DOMAIN opts : opts[k] # None

E_MissingQuat ==
  "PLY: missing quaternion fields. Expected either rot_0..rot_3 (wxyz) or qx,qy,qz,qw (xyzw)"

\* From the parsed header to the resolved fields: [err |-> message], or with
\* err = "" the vertex element and, per field, its (property index, type).
Resolve(header) ==
  LET found == FindVertex(header.elements, 1)
      el == found[1]
      pmap == BuildPmap(el.properties, 1, EmptyMap)
      x == PickName(pmap, NAMES_X)
      y == PickName(pmap, NAMES_Y)
      z == PickName(pmap, NAMES_Z)
      s0 == PickName(pmap, NAMES_S0)
      s1 == PickName(pmap, NAMES_S1)
      s2 == PickName(pmap, NAMES_S2)
      rot == <<PickName(pmap, <<W.rot_0>>), PickName(pmap, <<W.rot_1>>),
               PickName(pmap, <<W.rot_2>>), PickName(pmap, <<W.rot_3>>)>>
      q == <<PickName(pmap, <<W.qx>>), PickName(pmap, <<W.qy>>),
             PickName(pmap, <<W.qz>>), PickName(pmap, <<W.qw>>)>>
      op == PickName(pmap, NAMES_OPACITY)
      rgb == <<PickName(pmap, NAMES_R), PickName(pmap, NAMES_G), PickName(pmap, NAMES_B)>>
      fdc == <<PickName(pmap, <<W.f_dc_0>>), PickName(pmap, <<W.f_dc_1>>),
               PickName(pmap, <<W.f_dc_2>>)>>
  IN
  IF found = None THEN [err |-> E_VertexNotFound]
  ELSE IF HasListProperty(el) THEN [err |-> E_UnsupportedListProperty]
  ELSE IF x = None THEN [err |-> "PLY: missing x in vertex"]
  ELSE IF y = None THEN [err |-> "PLY: missing y in vertex"]
  ELSE IF z = None THEN [err |-> "PLY: missing z in vertex"]
  ELSE IF s0 = None THEN [err |-> "PLY: missing scale_0 in vertex"]
  ELSE IF s1 = None THEN [err |-> "PLY: missing scale_1 in vertex"]
  ELSE IF s2 = None THEN [err |-> "PLY: missing scale_2 in vertex"]
  ELSE IF ~AllSome(rot) /\ ~AllSome(q) THEN [err |-> E_MissingQuat]
  ELSE IF op = None THEN [err |-> "PLY: missing opacity in vertex"]
  ELSE [err |-> "", el |-> el,
        pos |-> <<x[1], y[1], z[1]>>,
        scale |-> <<s0[1], s1[1], s2[1]>>,
        quat_layout |-> IF AllSome(rot) THEN "Wxyz" ELSE "Xyzw",
        rot |-> IF AllSome(rot) THEN [k \in 1..4 |-> rot[k][1]] ELSE [k \in 1..4 |-> q[k][1]],
        op |-> op[1],
        color |-> IF AllSome(rgb) THEN Some([k \in 1..3 |-> rgb[k][1]]) ELSE None,
        fdc |-> IF AllSome(fdc) THEN Some([k \in 1..3 |-> fdc[k][1]]) ELSE None]

----------------------------------------------------------------------------
(* read_scalar: one binary scalar, widened to f64. *)

\* An IEEE-754 binary32 from its bytes, most significant first.
F32FromBe(b) ==
  LET neg == b[1] >= 128
      e == (b[1] % 128) * 2 + b[2] \div 128
      m == (b[2] % 128) * 65536 + b[3] * 256 + b[4]
      frac == Q(8388608 + m, 8388608)
      mag == IF e = 255 THEN (IF m = 0 THEN Inf ELSE NaN)
             ELSE IF e = 0 THEN (IF m = 0 THEN Zero ELSE Q(m, Pow(2, 149)))
             ELSE IF e >= 127 THEN FMul(frac, I2F(Pow(2, e - 127)))
             ELSE FMul(frac, Q(1, Pow(2, 127 - e)))
  IN  IF neg THEN FNeg(mag) ELSE mag

\* An IEEE-754 binary64 from its bytes, most significant first.
F64FromBe(b) ==
  LET neg == b[1] >= 128
      e == (b[1] % 128) * 16 + b[2] \div 16
      mhi == (b[2] % 16) * 65536 + b[3] * 256 + b[4]
      lo(k) == IF b[k] = 0 THEN Zero ELSE Q(b[k], Pow(2, 20 + 8 * (k - 4)))
      mlo == FAdd(FAdd(lo(5), lo(6)), FAdd(lo(7), lo(8)))
      frac == FAdd(Q(1048576 + mhi, 1048576), mlo)
      mzero == mhi = 0 /\ mlo = Zero
      mag == IF e = 2047 THEN (IF mzero THEN Inf ELSE NaN)
             ELSE IF e = 0 THEN (IF mzero THEN Zero ELSE FMul(FSub(frac, One), Q(1, Pow(2, 1022))))
             ELSE IF e >= 1023 THEN FMul(frac, I2F(Pow(2, e - 1023)))
             ELSE FMul(frac, Q(1, Pow(2, 1023 - e)))
  IN  IF neg THEN FNeg(mag) ELSE mag

Reverse(s) == [k \in DOMAIN s |-> s[Len(s) + 1 - k]]

\* The unsigned value of bytes given most significant first.
RECURSIVE UFromBe(_)
UFromBe(b) == IF b = <<>> THEN 0 ELSE UFromBe(SubSeq(b, 1, Len(b) - 1)) * 256 + b[Len(b)]

\* The two's complement value of bytes given most significant first.
IFromBe(b) ==
  IF b[1] >= 128 THEN UFromBe(<<b[1] - 256>> \o Tail(b)) ELSE UFromBe(b)

\* read_scalar(bytes, offset, ty, little): the error past the end of the
\* buffer, else the value read.
ReadScalar(bytes, offset, ty, little) ==
  LET Value(be) ==
        CASE ty \in {"Char", "Short", "Int"} -> I2F(IFromBe(be))
          [] ty \in {"UChar", "UShort", "UInt"} -> I2F(UFromBe(be))
          [] ty = "Float" -> F32FromBe(be)
          [] ty = "Double" -> F64FromBe(be)
      Bytes(b) == Value(IF little THEN Reverse(b) ELSE b)
  IN  IF offset + SizeBytes(ty) > Len(bytes) THEN [err |-> E_Truncated, v |-> NaN]
      ELSE [err |-> "", v |-> Bytes(SubSeq(bytes, offset + 1, offset + SizeBytes(ty)))]

----------------------------------------------------------------------------
(* sigmoid, clamp255, rgba_to_u32, the covariance. *)

\* exp on f32, rounded to three decimals, for the arguments the inputs draw;
\* it overflows to +inf from 89 on and underflows to 0 from -104 down.
ExpTable ==
  (Zero :> One) @@ (One :> Q(2718, 1000)) @@ (I2F(-1) :> Q(368, 1000))
  @@ (Q(1, 2) :> Q(1649, 1000)) @@ (Q(-1, 2) :> Q(607, 1000))
  @@ (I2F(2) :> Q(7389, 1000)) @@ (I2F(-2) :> Q(135, 1000))
  @@ (I2F(3) :> Q(20086, 1000)) @@ (I2F(-3) :> Q(50, 1000))

FExp(v) ==
  IF IsNaN(v) THEN NaN
  ELSE IF FGe(v, I2F(89)) THEN Inf
  ELSE IF FLe(v, I2F(-104)) THEN Zero
  ELSE ExpTable[v]

sigmoid(x) ==
  IF FGe(x, Zero)
    THEN LET z == FExp(FNeg(x)) IN FDiv(One, FAdd(One, z))
    ELSE LET z == FExp(x) IN FDiv(z, FAdd(One, z))

\* clamp255: 0 up to 0, 255 from 255 on, else the floor; NaN casts to 0.
clamp255(x) ==
  IF FLe(x, Zero) THEN 0
  ELSE IF FGe(x, I2F(255)) THEN 255
  ELSE IF IsNaN(x) THEN 0
  ELSE FFloor(x)

\* A variant of rgba_to_u32 with red and blue changing places.
rgba_to_u32_Bgra(r, g, b, a) ==
  [lo |-> (b % 256) + (g % 256) * 256, hi |-> (r % 256) + (a % 256) * 256]

\* A u32 as its two 16-bit halves: the value is hi * 65536 + lo.
rgba_to_u32(r, g, b, a) ==
  [lo |-> (r % 256) + (g % 256) * 256, hi |-> (b % 256) + (a % 256) * 256]

\* normalize_quat.  The result stands for (x, y, z, w) * sqrt(inv2): inv2 is
\* inv * inv, so that no square root is taken.
normalize_quat(x, y, z, w) ==
  LET len2 == FAdd(FAdd(FAdd(FMul(x, x), FMul(y, y)), FMul(z, z)), FMul(w, w))
  IN  [x |-> x, y |-> y, z |-> z, w |-> w,
       inv2 |-> IF FGt(len2, Zero) THEN FRecip(len2) ELSE One]

\* quat_to_mat3_cols on a normalized quaternion: the three columns.
quat_to_mat3_cols(q) ==
  LET P(a, b) == FMul(FMul(a, b), q.inv2)
      Two == I2F(2)
      xx == P(q.x, q.x)
      yy == P(q.y, q.y)
      zz == P(q.z, q.z)
      xy == P(q.x, q.y)
      xz == P(q.x, q.z)
      yz == P(q.y, q.z)
      wx == P(q.w, q.x)
      wy == P(q.w, q.y)
      wz == P(q.w, q.z)
      r00 == FSub(One, FMul(Two, FAdd(yy, zz)))
      r01 == FMul(Two, FSub(xy, wz))
      r02 == FMul(Two, FAdd(xz, wy))
      r10 == FMul(Two, FAdd(xy, wz))
      r11 == FSub(One, FMul(Two, FAdd(xx, zz)))
      r12 == FMul(Two, FSub(yz, wx))
      r20 == FMul(Two, FSub(xz, wy))
      r21 == FMul(Two, FAdd(yz, wx))
      r22 == FSub(One, FMul(Two, FAdd(xx, yy)))
  IN  <<<<r00, r10, r20>>, <<r01, r11, r21>>, <<r02, r12, r22>>>>

\* A variant of covariance_from_quat_scale that weighs the columns by the
\* scales, not by their squares.
covariance_from_quat_scale_Unsquared(qx, qy, qz, qw, sx, sy, sz) ==
  LET M(c, s2, i, j) == FAdd(FAdd(FMul(FMul(s2[1], c[1][i]), c[1][j]),
                                 FMul(FMul(s2[2], c[2][i]), c[2][j])),
                            FMul(FMul(s2[3], c[3][i]), c[3][j]))
      Cov(c, s2) == <<M(c, s2, 1, 1), M(c, s2, 1, 2), M(c, s2, 1, 3),
                      M(c, s2, 2, 2), M(c, s2, 2, 3), M(c, s2, 3, 3)>>
  IN  Cov(quat_to_mat3_cols(normalize_quat(qx, qy, qz, qw)), <<sx, sy, sz>>)

\* covariance_from_quat_scale: m11, m12, m13, m22, m23, m33.
covariance_from_quat_scale(qx, qy, qz, qw, sx, sy, sz) ==
  LET M(c, s2, i, j) == FAdd(FAdd(FMul(FMul(s2[1], c[1][i]), c[1][j]),
                                 FMul(FMul(s2[2], c[2][i]), c[2][j])),
                            FMul(FMul(s2[3], c[3][i]), c[3][j]))
      Cov(c, s2) == <<M(c, s2, 1, 1), M(c, s2, 1, 2), M(c, s2, 1, 3),
                      M(c, s2, 2, 2), M(c, s2, 2, 3), M(c, s2, 3, 3)>>
  IN  Cov(quat_to_mat3_cols(normalize_quat(qx, qy, qz, qw)),
          <<FMul(sx, sx), FMul(sy, sy), FMul(sz, sz)>>)

----------------------------------------------------------------------------
(* The allocation and the record loops. *)

\* const SH_C0 = 0.28209479177387814, to six decimals.
SH_C0 == Q(282095, 1000000)

WHITE == rgba_to_u32(255, 255, 255, 255)

Repeat(v, n) == [k \in 1..n |-> v]

E_MulOverflow == "attempt to multiply with overflow"
E_CapacityOverflow == "capacity overflow"

\* vec![v; n] of 4-byte items panics when n * 4 exceeds isize::MAX.
VecTooLarge(n) == n > IsizeMax \div 4

\* count * k on usize: with overflow checks (a debug build) an overflow
\* panics, without them (a release build) the product wraps.
MulOverflows(count, k) == count * k > UsizeMax
WrappingMul(count, k) == (count * k) % (UsizeMax + 1)

\* A variant of Allocate whose center holds two values per record.
Allocate_TwoPerRecord(count, overflow_checks) ==
  IF MulOverflows(count, 6) \/ VecTooLarge(count * 6) THEN Panic(E_CapacityOverflow)
  ELSE [kind |-> "Ok",
        center |-> Repeat(Zero, count * 2),
        covariance |-> Repeat(Zero, count * 6),
        rgba |-> Repeat(WHITE, count),
        bbox_min |-> <<Inf, Inf, Inf>>,
        bbox_max |-> <<NegInf, NegInf, NegInf>>]

\* The three vec! and the bounding box seed, or the panic they end in.
Allocate(count, overflow_checks) ==
  IF overflow_checks /\ MulOverflows(count, 3) THEN Panic(E_MulOverflow)
  ELSE IF VecTooLarge(WrappingMul(count, 3)) THEN Panic(E_CapacityOverflow)
  ELSE IF overflow_checks /\ MulOverflows(count, 6) THEN Panic(E_MulOverflow)
  ELSE IF VecTooLarge(WrappingMul(count, 6)) THEN Panic(E_CapacityOverflow)
  ELSE IF VecTooLarge(count) THEN Panic(E_CapacityOverflow)
  ELSE [kind |-> "Ok",
        center |-> Repeat(Zero, WrappingMul(count, 3)),
        covariance |-> Repeat(Zero, WrappingMul(count, 6)),
        rgba |-> Repeat(WHITE, count),
        bbox_min |-> <<Inf, Inf, Inf>>,
        bbox_max |-> <<NegInf, NegInf, NegInf>>]

\* A variant of StrideOf that takes every property as four bytes wide.
StrideOf_FourEach(props, n) == 4 * n

\* offsets[k] of the binary loop, for the 0-based property index k - 1.
RECURSIVE StrideOf(_, _)
StrideOf(props, n) == IF n = 0 THEN 0 ELSE StrideOf(props, n - 1) + SizeBytes(props[n].ty)

Offsets(el) == [k \in DOMAIN el.properties |-> StrideOf(el.properties, k - 1)]
Stride(el) == StrideOf(el.properties, Len(el.properties))

\* The first failed read of rs, in order: its message, or "".
RECURSIVE FirstErr(_, _)
FirstErr(rs, k) ==
  IF k > Len(rs) THEN "" ELSE IF rs[k].err # "" THEN rs[k].err ELSE FirstErr(rs, k + 1)

\* A variant of RecordCore that takes a0..a3 as (x, y, z, w) in either layout.
RecordCore_IgnoresLayout(v, quat_layout, opts) ==
  LET Scale(s) == IF opts.assume_log_scale THEN FExp(s) ELSE s
      alpha == IF opts.assume_logit_opacity THEN sigmoid(v[11]) ELSE v[11]
  IN  [c |-> <<v[1], v[2], v[3]>>,
       cov |-> covariance_from_quat_scale(v[7], v[8], v[9], v[10],
                                          Scale(v[4]), Scale(v[5]), Scale(v[6])),
       a |-> clamp255(FMul(alpha, I2F(255)))]

\* Position, covariance and alpha byte of a record from its eleven values
\* cx cy cz, s0 s1 s2, a0 a1 a2 a3, opv.
RecordCore(v, quat_layout, opts) ==
  LET sx == IF opts.assume_log_scale THEN FExp(v[4]) ELSE v[4]
      sy == IF opts.assume_log_scale THEN FExp(v[5]) ELSE v[5]
      sz == IF opts.assume_log_scale THEN FExp(v[6]) ELSE v[6]
      q == IF quat_layout = "Wxyz" THEN <<v[8], v[9], v[10], v[7]>>
           ELSE <<v[7], v[8], v[9], v[10]>>
      alpha == IF opts.assume_logit_opacity THEN sigmoid(v[11]) ELSE v[11]
  IN  [c |-> <<v[1], v[2], v[3]>>,
       cov |-> covariance_from_quat_scale(q[1], q[2], q[3], q[4], sx, sy, sz),
       a |-> clamp255(FMul(alpha, I2F(255)))]

FromDc(f) == clamp255(FMul(FAdd(Q(1, 2), FMul(SH_C0, f)), I2F(255)))

\* The writes of one record into the output arrays and the bounding box.
WriteRecord(out, i, core, rgb) ==
  [out EXCEPT
     !.center = [k \in DOMAIN @ |-> IF k > 3 * i /\ k <= 3 * i + 3 THEN core.c[k - 3 * i] ELSE @[k]],
     !.covariance = [k \in DOMAIN @ |-> IF k > 6 * i /\ k <= 6 * i + 6 THEN core.cov[k - 6 * i] ELSE @[k]],
     !.rgba[i + 1] = rgba_to_u32(rgb[1], rgb[2], rgb[3], core.a),
     !.bbox_min = [k \in 1..3 |-> FMin(@[k], core.c[k])],
     !.bbox_max = [k \in 1..3 |-> FMax(@[k], core.c[k])]]

\* The colour columns a record is read from, and where they come from.
ColourCols(lay) ==
  IF lay.color # None THEN lay.color[1] ELSE IF lay.fdc # None THEN lay.fdc[1] ELSE <<>>
\* A variant of ColourKind that looks at f_dc before the explicit colour.
ColourKind_FdcFirst(lay) ==
  IF lay.fdc # None THEN "fdc" ELSE IF lay.color # None THEN "color" ELSE "none"

ColourKind(lay) ==
  IF lay.color # None THEN "color" ELSE IF lay.fdc # None THEN "fdc" ELSE "none"

\* A variant of RecordRgb that takes explicit colours as they are.
RecordRgb_NeverScales(col, kind, scaled) ==
  IF kind = "color" THEN [k \in 1..3 |-> clamp255(col[k].v)]
  ELSE IF kind = "fdc" THEN [k \in 1..3 |-> FromDc(col[k].v)]
  ELSE <<255, 255, 255>>

\* r, g, b of a record: explicit colour (times 255 when scaled), f_dc, or white.
RecordRgb(col, kind, scaled) ==
  IF kind = "color"
    THEN [k \in 1..3 |-> clamp255(IF scaled THEN FMul(col[k].v, I2F(255)) ELSE col[k].v)]
  ELSE IF kind = "fdc" THEN [k \in 1..3 |-> FromDc(col[k].v)]
  ELSE <<255, 255, 255>>

\* A variant of StoreRecord that leaves out a record it cannot decode and
\* goes on.
StoreRecord_SkipsBad(main, col, kind, scaled, quat_layout, opts, out, i) ==
  [err |-> "",
   out |-> IF FirstErr(main \o col, 1) # "" THEN out
           ELSE WriteRecord(out, i, RecordCore([k \in 1..11 |-> main[k].v], quat_layout, opts),
                            RecordRgb(col, kind, scaled))]

\* The body of either loop once the record's values main and col are read:
\* the first error of the reads, or the writes.
StoreRecord(main, col, kind, scaled, quat_layout, opts, out, i) ==
  IF FirstErr(main \o col, 1) # "" THEN [err |-> FirstErr(main \o col, 1)]
  ELSE [err |-> "",
        out |-> WriteRecord(out, i, RecordCore([k \in 1..11 |-> main[k].v], quat_layout, opts),
                            RecordRgb(col, kind, scaled))]

E_Unreachable == "internal error: entered unreachable code"

\* The binary arm up to its loop: offsets and stride of the properties, which
\* are all scalar here, and the first base.
BinarySetup(header, el) ==
  IF \E k \in DOMAIN el.properties : el.properties[k].kind # "Scalar"
    THEN [err |-> E_Unreachable]
  ELSE [err |-> "", i |-> 0, base |-> header.data_offset,
        offsets |-> Offsets(el), stride |-> Stride(el)]

\* One iteration of the binary loop: record i read at base.
BinaryRecord(bytes, lay, offsets, little, opts, out, i, base) ==
  LET Read(fs) ==
        [k \in DOMAIN fs |->
           ReadScalar(bytes, base + offsets[fs[k][1] + 1], fs[k][2], little)]
      byte == \A k \in 1..3 : IsProbablyByteColor(lay.color[1][k][2])
  IN  StoreRecord(Read(lay.pos \o lay.scale \o lay.rot \o <<lay.op>>), Read(ColourCols(lay)),
                  ColourKind(lay), ~byte, lay.quat_layout, opts, out, i)

\* name_to_col after the inserts for properties k.. of el, scalar_i scalars seen.
RECURSIVE BuildNameToCol(_, _, _, _)
BuildNameToCol(props, k, scalar_i, map) ==
  IF k > Len(props) THEN map
  ELSE IF props[k].kind = "Scalar"
    THEN BuildNameToCol(props, k + 1, scalar_i + 1, Insert(map, ToLowercase(props[k].name), scalar_i))
  ELSE BuildNameToCol(props, k + 1, scalar_i, map)

\* The ASCII arm up to its loop: the data lines and the columns by name.
AsciiSetup(bytes, header, el) ==
  LET data == SubSeq(bytes, header.data_offset + 1, Len(bytes))
      raw == IF header.newline = "Lf" THEN Split(data, <<LF>>) ELSE Split(data, <<CR, LF>>)
      lines == SelectSeq(raw, LAMBDA l : Trim(l) # <<>>)
      name_to_col == BuildNameToCol(el.properties, 1, 0, EmptyMap)
      col(names) == PickName(name_to_col, names)
      pos == <<col(NAMES_X), col(NAMES_Y), col(NAMES_Z)>>
      scale == <<col(NAMES_S0), col(NAMES_S1), col(NAMES_S2)>>
      rot == <<col(<<W.rot_0>>), col(<<W.rot_1>>), col(<<W.rot_2>>), col(<<W.rot_3>>)>>
      q == <<col(<<W.qx>>), col(<<W.qy>>), col(<<W.qz>>), col(<<W.qw>>)>>
      op == col(NAMES_OPACITY)
      rgb == <<col(NAMES_R), col(NAMES_G), col(NAMES_B)>>
      fdc == <<col(<<W.f_dc_0>>), col(<<W.f_dc_1>>), col(<<W.f_dc_2>>)>>
  IN
  IF ~Utf8Valid(data) THEN [err |-> "PLY ASCII: data is not valid utf-8"]
  ELSE IF Len(lines) < el.count THEN [err |-> "PLY ASCII: not enough vertex lines"]
  ELSE IF pos[1] = None THEN [err |-> "PLY ASCII: missing x"]
  ELSE IF pos[2] = None THEN [err |-> "PLY ASCII: missing y"]
  ELSE IF pos[3] = None THEN [err |-> "PLY ASCII: missing z"]
  ELSE IF scale[1] = None THEN [err |-> "PLY ASCII: missing scale_0"]
  ELSE IF scale[2] = None THEN [err |-> "PLY ASCII: missing scale_1"]
  ELSE IF scale[3] = None THEN [err |-> "PLY ASCII: missing scale_2"]
  ELSE IF ~AllSome(rot) /\ ~AllSome(q)
    THEN [err |-> "PLY ASCII: missing quaternion fields. Expected either rot_0..rot_3 (wxyz) or qx,qy,qz,qw (xyzw)"]
  ELSE IF op = None THEN [err |-> "PLY ASCII: missing opacity"]
  ELSE [err |-> "", lines |-> lines,
        main |-> [k \in 1..3 |-> pos[k][1]] \o [k \in 1..3 |-> scale[k][1]]
                 \o (IF AllSome(rot) THEN [k \in 1..4 |-> rot[k][1]] ELSE [k \in 1..4 |-> q[k][1]])
                 \o op,
        quat_layout |-> IF AllSome(rot) THEN "Wxyz" ELSE "Xyzw",
        color |-> IF AllSome(rgb) THEN Some([k \in 1..3 |-> rgb[k][1]]) ELSE None,
        fdc |-> IF AllSome(fdc) THEN Some([k \in 1..3 |-> fdc[k][1]]) ELSE None]

\* One iteration of the ASCII loop: record i from line i.
AsciiRecord(cols, opts, out, i) ==
  LET Number(r) == [err |-> IF r.ok THEN "" ELSE "PLY ASCII: failed to parse number", v |-> r.v]
      Columns(parts, idxs) ==
        [k \in DOMAIN idxs |->
           IF idxs[k] + 1 > Len(parts) THEN [err |-> "PLY ASCII: missing column", v |-> NaN]
           ELSE Number(ParseF32(parts[idxs[k] + 1]))]
      Row(main, col) ==
        StoreRecord(main, col, ColourKind(cols), \A k \in 1..3 : FLe(col[k].v, One),
                    cols.quat_layout, opts, out, i)
      Line(parts) == Row(Columns(parts, cols.main), Columns(parts, ColourCols(cols)))
  IN  Line(SplitWhitespace(cols.lines[i + 1]))

\* The returned SplatPlyBuffersCore.
Buffers(header, count, out) ==
  [kind |-> "Ok", count |-> count, format |-> header.format,
   center |-> out.center, covariance |-> out.covariance, rgba |-> out.rgba,
   bbox_min |-> out.bbox_min, bbox_max |-> out.bbox_max]

----------------------------------------------------------------------------
(* The whole call as a function of its arguments; overflow_checks is the   *)
(* build's setting.                                                        *)

RECURSIVE BinaryLoop(_, _, _, _, _, _, _)
BinaryLoop(bytes, lay, b, little, opts, out, i) ==
  IF i = lay.el.count THEN [err |-> "", out |-> out]
  ELSE LET r == BinaryRecord(bytes, lay, b.offsets, little, opts, out, i, b.base + i * b.stride)
       IN  IF r.err # "" THEN r ELSE BinaryLoop(bytes, lay, b, little, opts, r.out, i + 1)

RECURSIVE AsciiLoop(_, _, _, _, _)
AsciiLoop(cols, opts, out, i, count) ==
  IF i = count THEN [err |-> "", out |-> out]
  ELSE LET r == AsciiRecord(cols, opts, out, i)
       IN  IF r.err # "" THEN r ELSE AsciiLoop(cols, opts, r.out, i + 1, count)

Parse(bytes, opts, overflow_checks) ==
  LET header == ParseHeader(bytes)
      lay == Resolve(header)
      out == Allocate(lay.el.count, overflow_checks)
      cols == AsciiSetup(bytes, header, lay.el)
      b == BinarySetup(header, lay.el)
      done == IF header.format = "Ascii"
                THEN (IF cols.err # "" THEN cols ELSE AsciiLoop(cols, opts, out, 0, lay.el.count))
                ELSE BinaryLoop(bytes, lay, b, header.format = "BinaryLittleEndian", opts, out, 0)
  IN  IF header.err # "" THEN Err(header.err)
      ELSE IF lay.err # "" THEN Err(lay.err)
      ELSE IF out.kind = "Panic" THEN out
      ELSE IF header.format # "Ascii" /\ b.err # "" THEN Panic(b.err)
      ELSE IF done.err # "" THEN Err(done.err)
      ELSE Buffers(header, lay.el.count, done.out)

----------------------------------------------------------------------------
(* The call as a state machine. *)

VARIABLES
  input,    \* how the buffer was put together (not read by the program)
  bytes,    \* the argument bytes
  opts,     \* the arguments assume_log_scale, assume_logit_opacity
  pc,       \* where the call is
  hp,       \* parse_header: lines, li, format, elements, current
  header,   \* the ParsedHeader
  lay,      \* the vertex element and the resolved fields
  loop,     \* the loop: i, with base, offsets, stride (binary) or lines and columns (ASCII)
  out,      \* center, covariance, rgba, bbox_min, bbox_max
  result    \* what the call returned

vars == <<input, bytes, opts, pc, hp, header, lay, loop, out, result>>

\* A local that does not exist: not yet bound, or dropped at the return.
Free == <<>>

\* The call returns r: every local is dropped.
Return(r) ==
  /\ pc' = "done"
  /\ result' = r
  /\ hp' = Free /\ header' = Free /\ lay' = Free /\ loop' = Free /\ out' = Free
  /\ UNCHANGED <<input, bytes, opts>>

\* parse_header up to its loop.
HeaderBeginAct ==
  /\ pc = "parse_header"
  /\ \E b \in {HeaderBegin(bytes)} :
       IF b.err # "" THEN Return(Err(b.err))
       ELSE /\ hp' = b
            /\ pc' = "header_loop"
            /\ UNCHANGED <<input, bytes, opts, header, lay, loop, out, result>>

\* One iteration of parse_header's loop.
HeaderLineAct ==
  /\ pc = "header_loop"
  /\ ~HeaderLoopDone(hp)
  /\ \E n \in {HeaderLine(hp)} :
       IF n.err # "" THEN Return(Err(n.err))
       ELSE /\ hp' = n
            /\ UNCHANGED <<input, bytes, opts, pc, header, lay, loop, out, result>>

\* parse_header after its loop.
HeaderEndAct ==
  /\ pc = "header_loop"
  /\ HeaderLoopDone(hp)
  /\ \E h \in {HeaderEnd(hp)} :
       IF h.err # "" THEN Return(Err(h.err))
       ELSE /\ header' = h
            /\ hp' = Free
            /\ pc' = "resolve"
            /\ UNCHANGED <<input, bytes, opts, lay, loop, out, result>>

\* The vertex element, the list check, the field lookups.
ResolveAct ==
  /\ pc = "resolve"
  /\ \E r \in {Resolve(header)} :
       IF r.err # "" THEN Return(Err(r.err))
       ELSE /\ lay' = r
            /\ pc' = "allocate"
            /\ UNCHANGED <<input, bytes, opts, hp, header, loop, out, result>>

\* The output arrays, in a build with or without overflow checks.
AllocateAct ==
  /\ pc = "allocate"
  /\ \E overflow_checks \in BOOLEAN :
       \E a \in {Allocate(lay.el.count, overflow_checks)} :
         IF a.kind = "Panic" THEN Return(a)
         ELSE /\ out' = a
              /\ pc' = IF header.format = "Ascii" THEN "ascii_setup" ELSE "binary_setup"
              /\ UNCHANGED <<input, bytes, opts, hp, header, lay, loop, result>>

\* The binary arm up to its loop.
BinarySetupAct ==
  /\ pc = "binary_setup"
  /\ \E b \in {BinarySetup(header, lay.el)} :
       IF b.err # "" THEN Return(Panic(b.err))
       ELSE /\ loop' = [i |-> b.i, base |-> b.base, offsets |-> b.offsets, stride |-> b.stride]
            /\ pc' = "binary_loop"
            /\ UNCHANGED <<input, bytes, opts, hp, header, lay, out, result>>

\* One iteration of the binary loop.
BinaryRecordAct ==
  /\ pc = "binary_loop"
  /\ loop.i < lay.el.count
  /\ \E r \in {BinaryRecord(bytes, lay, loop.offsets, header.format = "BinaryLittleEndian",
                            opts, out, loop.i, loop.base)} :
       IF r.err # "" THEN Return(Err(r.err))
       ELSE /\ out' = r.out
            /\ loop' = [loop EXCEPT !.i = loop.i + 1, !.base = loop.base + loop.stride]
            /\ UNCHANGED <<input, bytes, opts, pc, hp, header, lay, result>>

\* The ASCII arm up to its loop.
AsciiSetupAct ==
  /\ pc = "ascii_setup"
  /\ \E c \in {AsciiSetup(bytes, header, lay.el)} :
       IF c.err # "" THEN Return(Err(c.err))
       ELSE /\ loop' = [i |-> 0, cols |-> c]
            /\ pc' = "ascii_loop"
            /\ UNCHANGED <<input, bytes, opts, hp, header, lay, out, result>>

\* One iteration of the ASCII loop.
AsciiRecordAct ==
  /\ pc = "ascii_loop"
  /\ loop.i < lay.el.count
  /\ \E r \in {AsciiRecord(loop.cols, opts, out, loop.i)} :
       IF r.err # "" THEN Return(Err(r.err))
       ELSE /\ out' = r.out
            /\ loop' = [loop EXCEPT !.i = loop.i + 1]
            /\ UNCHANGED <<input, bytes, opts, pc, hp, header, lay, result>>

\* Ok(SplatPlyBuffersCore { .. }) once the loop has run count times.
FinishAct ==
  /\ pc \in {"binary_loop", "ascii_loop"}
  /\ loop.i = lay.el.count
  /\ Return(Buffers(header, lay.el.count, out))

Next ==
  \/ HeaderBeginAct
  \/ HeaderLineAct
  \/ HeaderEndAct
  \/ ResolveAct
  \/ AllocateAct
  \/ BinarySetupAct
  \/ BinaryRecordAct
  \/ AsciiSetupAct
  \/ AsciiRecordAct
  \/ FinishAct

----------------------------------------------------------------------------
(* The buffers the call is run on.  An input names the header lines (each  *)
(* a sequence of words, "#" for the numeral of the count n), the           *)
(* newline, the records (each a sequence of scalars, one per column) with  *)
(* the types and format they are encoded in, and the number of bytes cut   *)
(* from the end.                                                           *)

MaxCount == 2

RECURSIVE Concat(_)
Concat(ss) == IF ss = <<>> THEN <<>> ELSE Head(ss) \o Concat(Tail(ss))

RECURSIVE Join(_, _)
Join(ws, sep) ==
  IF ws = <<>> THEN <<>>
  ELSE IF Len(ws) = 1 THEN ws[1]
  ELSE ws[1] \o sep \o Join(Tail(ws), sep)

RECURSIVE Decimal(_)
Decimal(k) == IF k < 10 THEN <<48 + k>> ELSE Decimal(k \div 10) \o <<48 + (k % 10)>>

\* The words of a file: those the parser knows, and others.
FileWords ==
  W @@ ("1.0" :> <<49, 46, 48>>) @@ ("VERTEX" :> <<86, 69, 82, 84, 69, 88>>)
    @@ ("Vertex" :> <<86, 101, 114, 116, 101, 120>>) @@ ("vErTeX" :> <<118, 69, 114, 84, 101, 88>>)
    @@ ("face" :> <<102, 97, 99, 101>>) @@ ("0" :> <<48>>)
    @@ ("X" :> <<88>>) @@ ("SCALE_1" :> <<83, 67, 65, 76, 69, 95, 49>>)
    @@ ("OPACITY" :> <<79, 80, 65, 67, 73, 84, 89>>)
    @@ ("vertex_indices" :> <<118, 101, 114, 116, 101, 120, 95, 105, 110, 100, 105, 99, 101, 115>>)

\* The word "#" stands for the numeral of n.
Word(w, n) == IF w = "#" THEN Decimal(n) ELSE FileWords[w]

\* A scalar of the pool: its encodings as binary32 and binary64 (most
\* significant byte first), as one byte, and as text.
Scalar(f32, f64, u8, txt) == [f32 |-> f32, f64 |-> f64 \o <<0, 0, 0, 0, 0, 0>>, u8 |-> u8, txt |-> txt]

Pool ==
  [v0 |-> Scalar(<<0, 0, 0, 0>>, <<0, 0>>, 0, <<48>>),
   v1 |-> Scalar(<<63, 128, 0, 0>>, <<63, 240>>, 1, <<49>>),
   half |-> Scalar(<<63, 0, 0, 0>>, <<63, 224>>, 128, <<48, 46, 53>>),
   v2 |-> Scalar(<<64, 0, 0, 0>>, <<64, 0>>, 2, <<50>>),
   v3 |-> Scalar(<<64, 64, 0, 0>>, <<64, 8>>, 3, <<51>>),
   neg1 |-> Scalar(<<191, 128, 0, 0>>, <<191, 240>>, 255, <<45, 49>>),
   v200 |-> Scalar(<<67, 72, 0, 0>>, <<64, 105>>, 200, <<50, 48, 48>>),
   v100 |-> Scalar(<<66, 200, 0, 0>>, <<64, 89>>, 100, <<49, 48, 48>>),
   nan |-> Scalar(<<127, 192, 0, 0>>, <<127, 248>>, 127, <<78, 97, 78>>),
   inf |-> Scalar(<<127, 128, 0, 0>>, <<127, 240>>, 254, <<105, 110, 102>>),
   neginf |-> Scalar(<<255, 128, 0, 0>>, <<255, 240>>, 129, <<45, 105, 110, 102>>),
   bad |-> Scalar(<<0, 0, 0, 0>>, <<0, 0>>, 0, <<97, 98, 99>>)]

\* The bytes of scalar v as type ty, most significant first.
EncodeBe(v, ty) ==
  CASE ty \in {"Char", "UChar"} -> <<v.u8>>
    [] ty \in {"Short", "UShort"} -> <<0, v.u8>>
    [] ty \in {"Int", "UInt"} -> <<0, 0, 0, v.u8>>
    [] ty = "Float" -> v.f32
    [] ty = "Double" -> v.f64

TypeWord(ty) ==
  CASE ty = "Char" -> "char" [] ty = "UChar" -> "uchar" [] ty = "Short" -> "short"
    [] ty = "UShort" -> "ushort" [] ty = "Int" -> "int" [] ty = "UInt" -> "uint"
    [] ty = "Float" -> "float" [] ty = "Double" -> "double"

FormatWord(enc) ==
  CASE enc = "Ascii" -> "ascii" [] enc = "Le" -> "binary_little_endian"
    [] enc = "Be" -> "binary_big_endian"

Newline(nl) == IF nl = "Lf" THEN <<LF>> ELSE <<CR, LF>>

\* One record of the data section.
EncodeRecord(rec, types, enc, nl) ==
  IF enc = "Ascii" THEN Join([k \in DOMAIN rec |-> Pool[rec[k]].txt], SP) \o Newline(nl)
  ELSE Concat([k \in DOMAIN rec |->
                 IF enc = "Le" THEN Reverse(EncodeBe(Pool[rec[k]], types[k]))
                 ELSE EncodeBe(Pool[rec[k]], types[k])])

\* The buffer an input stands for.
Render(in) ==
  LET Cut(all) == SubSeq(all, 1, Len(all) - in.cut)
  IN  Cut(Concat([k \in DOMAIN in.head |->
                    Join([j \in DOMAIN in.head[k] |-> Word(in.head[k][j], in.n)], SP) \o Newline(in.nl)])
          \o Concat([k \in DOMAIN in.recs |-> EncodeRecord(in.recs[k], in.types, in.enc, in.nl)]))

AllOpts == [assume_log_scale : BOOLEAN, assume_logit_opacity : BOOLEAN]
DefaultOpts == [assume_log_scale |-> TRUE, assume_logit_opacity |-> TRUE]

\* A column: its declared type and name.
Col(ty, name) == [ty |-> ty, name |-> name]

PropLine(c) == <<"property", TypeWord(c.ty), c.name>>

\* The header of a file with one element.
StdHead(enc, elname, cols) ==
  <<<<"ply">>, <<"format", FormatWord(enc), "1.0">>, <<"element", elname, "#">>>>
  \o [k \in DOMAIN cols |-> PropLine(cols[k])]
  \o <<<<"end_header">>>>

\* n is the count the vertex element declares, bad the index of the first
\* record that cannot be decoded and why the error it gives; -1 and "" when the
\* input is not built to one.  tag names what the input was built to show.
Input(head, nl, enc, types, recs, cut, o) ==
  [head |-> head, nl |-> nl, enc |-> enc, types |-> types, recs |-> recs, cut |-> cut,
   opts |-> o, n |-> -1, bad |-> -1, why |-> "", tag |-> ""]

\* A file with one element named elname declaring n records and holding recs.
StdFile(enc, nl, elname, cols, n, recs, cut, o) ==
  [Input(StdHead(enc, elname, cols), nl, enc,
         [k \in DOMAIN cols |-> cols[k].ty], recs, cut, o) EXCEPT !.n = n]

\* The eleven required columns, as floats, under their first names.
StdCols ==
  <<Col("Float", "x"), Col("Float", "y"), Col("Float", "z"),
    Col("Float", "scale_0"), Col("Float", "scale_1"), Col("Float", "scale_2"),
    Col("Float", "rot_0"), Col("Float", "rot_1"), Col("Float", "rot_2"), Col("Float", "rot_3"),
    Col("Float", "opacity")>>

\* Records for them.
RecA == <<"v1", "v2", "v3", "v0", "v0", "v0", "v1", "v0", "v0", "v0", "v0">>
RecB == <<"neg1", "half", "v0", "v1", "v0", "neg1", "v0", "v0", "v1", "v1", "v1">>
StdRecs(n) == [k \in 1..n |-> IF k % 2 = 1 THEN RecA ELSE RecB]

Encs == {"Ascii", "Le", "Be"}

\* The bytes of one binary record of the given columns.
RecordBytes(cols) == StrideOf(cols, Len(cols))

\* Well-formed files holding MaxCount records and declaring 0..MaxCount of
\* them, in every format, newline and option.
FamGood ==
  {StdFile(enc, nl, "vertex", StdCols, n, StdRecs(MaxCount), 0, o) :
     enc \in Encs, nl \in {"Lf", "CrLf"}, n \in 0..MaxCount, o \in AllOpts}

\* Binary files cut anywhere inside their data: the first record that is not
\* whole is the first that cannot be decoded.
FamTruncBinary ==
  {[StdFile(enc, "Lf", "vertex", StdCols, MaxCount, StdRecs(MaxCount), cut, DefaultOpts)
      EXCEPT !.bad = (MaxCount * RecordBytes(StdCols) - cut) \div RecordBytes(StdCols),
             !.why = E_Truncated] :
     enc \in {"Le", "Be"}, cut \in 1..(MaxCount * RecordBytes(StdCols))}

\* ASCII files cut anywhere inside their data, and files cut inside the header.
FamTruncOther ==
  {StdFile("Ascii", nl, "vertex", StdCols, MaxCount, StdRecs(MaxCount), cut, DefaultOpts) :
     nl \in {"Lf", "CrLf"}, cut \in 1..(MaxCount * 24)}
  \cup {StdFile("Le", "Lf", "vertex", StdCols, 1, StdRecs(1), RecordBytes(StdCols) + 7 * k,
                DefaultOpts) : k \in 0..45}

\* ASCII files whose record i holds a token that is no number in column c, or
\* has only its first c columns.
FamAsciiBad ==
  {[StdFile("Ascii", nl, "vertex", StdCols, MaxCount,
            [k \in 1..MaxCount |->
               IF k # i + 1 THEN StdRecs(MaxCount)[k]
               ELSE IF how[1] = "short" THEN SubSeq(StdRecs(MaxCount)[k], 1, how[2])
               ELSE [StdRecs(MaxCount)[k] EXCEPT ![how[2]] = "bad"]],
            0, DefaultOpts)
      EXCEPT !.bad = i,
             !.why = IF how[1] = "short" THEN "PLY ASCII: missing column"
                     ELSE "PLY ASCII: failed to parse number"] :
     nl \in {"Lf", "CrLf"}, i \in 0..(MaxCount - 1),
     how \in {<<"token", 1>>, <<"token", 6>>, <<"token", 11>>,
              <<"short", 1>>, <<"short", 5>>, <<"short", 10>>}}

\* Files whose vertex element declares more records than memory can hold, or
\* more than the file holds.
FamHuge ==
  {StdFile(enc, "Lf", "vertex", StdCols, n, StdRecs(1), 0, DefaultOpts) :
     enc \in Encs,
     n \in {UsizeMax, UsizeMax \div 3 + 1, UsizeMax \div 6 + 1, IsizeMax \div 4 + 1,
            IsizeMax \div 24 + 1, MaxCount + 1}}

\* Files of MaxCount records whose x coordinates are drawn from finite
\* values, infinities and NaN.
FamPos ==
  {StdFile(enc, "Lf", "vertex", StdCols, MaxCount,
           [k \in 1..MaxCount |-> [RecA EXCEPT ![1] = xs[k]]], 0, DefaultOpts) :
     enc \in Encs, xs \in [1..MaxCount -> {"v1", "neg1", "nan", "inf"}]}

\* s with the lines xs put in after its first k.
Splice(s, k, xs) == SubSeq(s, 1, k) \o xs \o SubSeq(s, k + 1, Len(s))

ListLine == <<"property", "list", "uchar", "int", "vertex_indices">>
FaceLine == <<"element", "face", "0">>

\* Files whose vertex element declares a list property: first, in the middle
\* or last among the eleven required properties, among ten of them (x
\* missing) or alone; declaring one record or more than memory holds.
FamListVertex ==
  UNION {{[StdFile(enc, "Lf", "vertex", cols, n, <<>>, 0, DefaultOpts)
             EXCEPT !.head = Splice(@, 3 + p, <<ListLine>>), !.tag = "list_vertex"] :
            enc \in Encs, n \in {1, UsizeMax}, p \in {0, Len(cols) \div 2, Len(cols)}} :
         cols \in {StdCols, Tail(StdCols), <<>>}}

\* Files whose list property belongs to an element face, declared before or
\* after the vertex element.
FamListOther ==
  {[StdFile(enc, "Lf", "vertex", StdCols, 1, StdRecs(1), 0, DefaultOpts)
      EXCEPT !.head = Splice(@, IF first THEN 2 ELSE Len(@) - 1, <<FaceLine, ListLine>>),
             !.tag = "list_other"] :
     enc \in Encs, first \in BOOLEAN}

\* The names the vertex element goes by.
VertexNames == {"vertex", "VERTEX", "Vertex", "vErTeX"}

\* Files under each of these names: whole, cut short, without x, and with a
\* list property.
FamCase ==
  {[f EXCEPT !.tag = "case"] : f \in
     UNION {{StdFile(enc, "Lf", name, StdCols, MaxCount, StdRecs(MaxCount), 0, DefaultOpts),
             StdFile(enc, "Lf", name, StdCols, MaxCount, StdRecs(MaxCount), 5, DefaultOpts),
             StdFile(enc, "Lf", name, Tail(StdCols), 1, <<Tail(RecA)>>, 0, DefaultOpts),
             [StdFile(enc, "Lf", name, StdCols, 1, StdRecs(1), 0, DefaultOpts)
                EXCEPT !.head = Splice(@, 5, <<ListLine>>)]} :
            enc \in Encs, name \in VertexNames}}

\* The same file with its rotation in the other encoding: the columns
\* rot_0..rot_3 holding (w, x, y, z) become qx, qy, qz, qw holding
\* (x, y, z, w), and back.
OtherLayout(in) ==
  LET Swap(names, from, tag) ==
        [in EXCEPT !.tag = tag,
                   !.head = [k \in DOMAIN @ |->
                               IF k \in 10..13 THEN PropLine(Col("Float", names[k - 9])) ELSE @[k]],
                   !.recs = [k \in DOMAIN @ |->
                               [j \in DOMAIN @[k] |->
                                  IF j \in 7..10 THEN @[k][from[j - 6]] ELSE @[k][j]]]]
  IN  IF in.tag = "rot" THEN Swap(<<"qx", "qy", "qz", "qw">>, <<8, 9, 10, 7>>, "quat")
      ELSE Swap(<<"rot_0", "rot_1", "rot_2", "rot_3">>, <<10, 7, 8, 9>>, "rot")

\* Quaternions (w, x, y, z): unit and not, zero, with unequal components.
Quats ==
  {<<"v1", "v0", "v0", "v0">>, <<"v1", "v1", "v0", "v0">>, <<"v0", "v0", "v0", "v1">>,
   <<"v1", "v0", "v2", "v0">>, <<"v0", "v0", "v0", "v0">>, <<"half", "v1", "neg1", "v2">>,
   <<"neg1", "v0", "v1", "v0">>}

\* Files of MaxCount records with unequal scales 1, 2, 3 and one of these
\* quaternions (in turn with its reverse), in either rotation encoding.
FamRot ==
  LET Wxyz == {[StdFile(enc, "Lf", "vertex", StdCols, MaxCount,
                        [k \in 1..MaxCount |->
                           <<"v1", "v2", "v3", "v1", "v2", "v3">>
                           \o (IF k % 2 = 1 THEN q ELSE Reverse(q)) \o <<"v0">>],
                        0, [assume_log_scale |-> FALSE, assume_logit_opacity |-> logit])
                  EXCEPT !.tag = "rot"] :
                 enc \in Encs, q \in Quats, logit \in BOOLEAN}
  IN  Wxyz \cup {OtherLayout(f) : f \in Wxyz}

\* Colour triples: in 0..1, above 1, negative, mixed, and not finite.
Triples ==
  <<<<"half", "half", "half">>, <<"v200", "v0", "v0">>, <<"v1", "v1", "v1">>,
    <<"neg1", "half", "v1">>, <<"v2", "half", "v0">>, <<"nan", "half", "half">>,
    <<"inf", "v1", "v0">>, <<"neginf", "v1", "half">>, <<"v1", "v3", "v200">>>>

\* Triple t, t + 1, .. for the records 1, 2, ..
TriplesFrom(t) == [k \in 1..MaxCount |-> Triples[((t + k - 2) % Len(Triples)) + 1]]

\* The types the three colour columns are declared with.
ColourTypes ==
  {<<"UChar", "UChar", "UChar">>, <<"Char", "Char", "Char">>, <<"Char", "UChar", "Char">>,
   <<"Float", "Float", "Float">>, <<"Double", "Double", "Double">>,
   <<"UChar", "UChar", "Float">>, <<"Float", "UChar", "UChar">>, <<"UChar", "Short", "UChar">>}

\* Files with explicit colour columns after the required ones.
FamColor ==
  {[StdFile(enc, "Lf", "vertex",
            StdCols \o [k \in 1..3 |-> Col(tys[k], names[k])], MaxCount,
            [k \in 1..MaxCount |-> RecA \o TriplesFrom(t)[k]], 0, DefaultOpts)
      EXCEPT !.tag = "color"] :
     enc \in Encs, tys \in ColourTypes, t \in 1..Len(Triples),
     names \in {<<"red", "green", "blue">>, <<"r", "g", "b">>}}

\* Opacities, for the records 1, 2, ..
Opacities == <<"half", "v2", "neg1", "nan", "inf", "neginf", "v1", "v0", "v3">>

\* Files with f_dc columns after the required ones, and with these opacities.
FamFdc ==
  {[StdFile(enc, "Lf", "vertex",
            StdCols \o <<Col("Float", "f_dc_0"), Col("Float", "f_dc_1"), Col("Float", "f_dc_2")>>,
            MaxCount,
            [k \in 1..MaxCount |->
               [RecA EXCEPT ![11] = Opacities[((t + k - 2) % Len(Opacities)) + 1]]
               \o TriplesFrom(t)[k]],
            0, [assume_log_scale |-> TRUE, assume_logit_opacity |-> logit])
      EXCEPT !.tag = "fdc"] :
     enc \in Encs, t \in 1..Len(Triples), logit \in BOOLEAN}

\* The required columns with the rotation as qx, qy, qz, qw.
QuatCols ==
  [k \in 1..11 |-> IF k \in 7..10 THEN Col("Float", <<"qx", "qy", "qz", "qw">>[k - 6])
                   ELSE StdCols[k]]

\* Scale triples, for the records 1, 2, ..
Scales ==
  <<<<"v1", "v2", "v3">>, <<"v0", "v1", "neg1">>, <<"half", "v2", "v0">>, <<"v2", "v2", "v2">>,
    <<"v3", "neg1", "half">>>>

ScalesFrom(t) == [k \in 1..MaxCount |-> Scales[((t + k - 2) % Len(Scales)) + 1]]

\* Little-endian files of 0..MaxCount records with these scales, the
\* rotation (0, 0, 0, 1) as x, y, z, w and opacity 0, under every option.
FamIdent ==
  {[StdFile("Le", "Lf", "vertex", QuatCols, n,
            [k \in 1..MaxCount |->
               <<"v1", "v2", "v3">> \o ScalesFrom(t)[k] \o <<"v0", "v0", "v0", "v1", "v0">>],
            0, o)
      EXCEPT !.tag = "ident"] :
     n \in 1..MaxCount, t \in 1..Len(Scales), o \in AllOpts}

\* Scale triples with large, infinite and NaN components among them.
ZeroQuatScales ==
  <<<<"v1", "v2", "v3">>, <<"v0", "neg1", "half">>, <<"v100", "v1", "v1">>,
    <<"inf", "v1", "v1">>, <<"v1", "nan", "v1">>, <<"v1", "v1", "neginf">>>>

\* Files of MaxCount records with the quaternion (0, 0, 0, 0) and these
\* scales, in every format and under either reading of the scale.
FamZeroQuat ==
  {[StdFile(enc, "Lf", "vertex", StdCols, MaxCount,
            [k \in 1..MaxCount |->
               <<"v1", "v2", "v3">> \o ZeroQuatScales[((t + k - 2) % Len(ZeroQuatScales)) + 1]
               \o <<"v0", "v0", "v0", "v0", "v0">>],
            0, [assume_log_scale |-> log, assume_logit_opacity |-> TRUE])
      EXCEPT !.tag = "zero_quat"] :
     enc \in Encs, t \in 1..Len(ZeroQuatScales), log \in BOOLEAN}

\* The most lines between the format line and end_header in the headers
\* put together line by line.
MaxHeaderLines == 4

\* The lines such a header is put together from.
HeaderLines ==
  {<<"element", "vertex", "#">>, FaceLine, <<"property", "float", "x">>, ListLine,
   <<"comment", "x">>}

\* ASCII files without data whose header holds every sequence of up to
\* MaxHeaderLines of these lines.
FamHeader ==
  {[Input(<<<<"ply">>, <<"format", "ascii", "1.0">>>> \o body \o <<<<"end_header">>>>,
          "Lf", "Ascii", <<>>, <<>>, 0, DefaultOpts)
      EXCEPT !.n = 1, !.tag = "header"] :
     body \in UNION {[1..m -> HeaderLines] : m \in 0..MaxHeaderLines}}

\* Files with two or three format lines, the data in the format of the last:
\* the lines one after the other, or the last of them after the properties.
FamDupFormat ==
  {[StdFile(last, "Lf", "vertex", StdCols, MaxCount, StdRecs(MaxCount), 0, DefaultOpts)
      EXCEPT !.head = IF late THEN <<@[1]>> \o early \o Splice(Tail(Tail(@)), Len(@) - 3, <<@[2]>>)
                      ELSE Splice(@, 1, early),
             !.tag = "dup_format"] :
     last \in Encs, late \in BOOLEAN,
     early \in {<<<<"format", FormatWord(e), "1.0">>>> : e \in Encs}
              \cup {<<<<"format", "ascii", "1.0">>, <<"format", "binary_big_endian", "1.0">>>>}}

\* Files whose vertex element declares x, scale_1 or opacity again: before
\* the required properties, after them, or both; in the same or in upper
\* case; as another type; holding 2 where declared before and 3 after.
FamDupProperty ==
  {[StdFile(enc, "Lf", "vertex",
            (IF place \in {"before", "both"} THEN <<Col(ty, name)>> ELSE <<>>) \o StdCols
            \o (IF place \in {"after", "both"} THEN <<Col(ty, name)>> ELSE <<>>),
            MaxCount,
            [k \in 1..MaxCount |->
               (IF place \in {"before", "both"} THEN <<"v2">> ELSE <<>>) \o StdRecs(MaxCount)[k]
               \o (IF place \in {"after", "both"} THEN <<"v3">> ELSE <<>>)],
            0, DefaultOpts)
      EXCEPT !.tag = "dup_property"] :
     enc \in Encs, place \in {"before", "after", "both"}, ty \in {"Float", "UChar", "Double"},
     name \in {"x", "X", "scale_1", "SCALE_1", "opacity", "OPACITY"}}

\* The required fields that go by several names: the column they have among
\* the required columns, and the names in the order they are looked for.
AliasFields ==
  {[at |-> 1, names |-> <<"x", "pos_x", "position_x">>],
   [at |-> 2, names |-> <<"y", "pos_y", "position_y">>],
   [at |-> 3, names |-> <<"z", "pos_z", "position_z">>],
   [at |-> 4, names |-> <<"scale_0", "sx", "scale_x", "scalex">>],
   [at |-> 5, names |-> <<"scale_1", "sy", "scale_y", "scaley">>],
   [at |-> 6, names |-> <<"scale_2", "sz", "scale_z", "scalez">>],
   [at |-> 11, names |-> <<"opacity", "alpha", "opac">>]}

\* The value stored under the k-th name of a field.
AliasValues == <<"half", "v1", "v0", "v3">>

\* The record the other columns are taken from.
AliasRecord == <<"v1", "v2", "v3", "v1", "v2", "v3", "v1", "v0", "v0", "v0", "half">>

\* s without its k-th member.
Drop(s, k) == SubSeq(s, 1, k - 1) \o SubSeq(s, k + 1, Len(s))

\* The members of S in increasing or in decreasing order.
InOrder(S, desc) ==
  [k \in 1..Cardinality(S) |-> Sorted(S)[IF desc THEN Cardinality(S) + 1 - k ELSE k]]

\* A file of one record whose required columns are followed by extra ones.
AliasFile(enc, cols, rec, names, values) ==
  [StdFile(enc, "Lf", "vertex", cols \o [k \in DOMAIN names |-> Col("Float", names[k])], 1,
           <<rec \o values>>, 0, [assume_log_scale |-> FALSE, assume_logit_opacity |-> FALSE])
     EXCEPT !.tag = "alias"]

\* Files declaring one required field under any set of its names (none
\* among them), in either order, each name with a value of its own.
FamAlias ==
  UNION {{AliasFile(enc, Drop(StdCols, f.at), Drop(AliasRecord, f.at),
                    [k \in 1..Cardinality(S) |-> f.names[InOrder(S, desc)[k]]],
                    [k \in 1..Cardinality(S) |-> AliasValues[InOrder(S, desc)[k]]]) :
            enc \in Encs, S \in SUBSET DOMAIN f.names, desc \in BOOLEAN} :
         f \in AliasFields}

\* The rotation columns: rot_0..rot_3 holding (w, x, y, z) = (1, 1, 0, 0) and
\* qx, qy, qz, qw holding (x, y, z, w) = (0, 1, 0, 1), another rotation.
RotNames == <<"rot_0", "rot_1", "rot_2", "rot_3", "qx", "qy", "qz", "qw">>
RotValues == <<"v1", "v1", "v0", "v0", "v0", "v1", "v0", "v1">>

\* Files declaring all, three or none of rot_0..rot_3 and all, three or none
\* of qx, qy, qz, qw, in either order.
FamAliasRot ==
  {AliasFile(enc, SubSeq(StdCols, 1, 6) \o <<StdCols[11]>>,
             SubSeq(AliasRecord, 1, 6) \o <<AliasRecord[11]>>,
             [k \in 1..Cardinality(rs \cup qs) |-> RotNames[InOrder(rs \cup qs, desc)[k]]],
             [k \in 1..Cardinality(rs \cup qs) |-> RotValues[InOrder(rs \cup qs, desc)[k]]]) :
     enc \in Encs, rs \in {1..4, {1, 2, 4}, {}}, qs \in {5..8, 5..7, {}}, desc \in BOOLEAN}

\* The explicit colour columns a file declares: whole triples under long,
\* short and mixed names and with red under both names, and parts of a triple.
ExplicitChoices ==
  {<<"red", "green", "blue">>, <<"r", "g", "b">>, <<"red", "g", "blue">>,
   <<"r", "red", "green", "blue">>, <<"red", "green">>, <<"g", "b">>, <<"green">>, <<>>}

\* The f_dc columns a file declares.
FdcChoices == {<<"f_dc_0", "f_dc_1", "f_dc_2">>, <<"f_dc_0", "f_dc_2">>, <<>>}

\* The value stored under each of these names.
SourceValues ==
  [red |-> "half", r |-> "v0", green |-> "v0", g |-> "half", blue |-> "v1", b |-> "half",
   f_dc_0 |-> "v1", f_dc_1 |-> "neg1", f_dc_2 |-> "v0"]

\* Files of MaxCount records declaring these colour columns after the
\* required ones, explicit or f_dc first, with the opacity 0.5.
FamSource ==
  UNION {{[StdFile(enc, "Lf", "vertex",
                   StdCols \o [k \in DOMAIN names |-> Col("Float", names[k])], MaxCount,
                   [i \in 1..MaxCount |->
                      [StdRecs(MaxCount)[i] EXCEPT ![11] = "half"]
                      \o [k \in DOMAIN names |-> SourceValues[names[k]]]],
                   0, DefaultOpts)
             EXCEPT !.tag = "source"] :
            enc \in Encs, names \in {ex \o fdc, fdc \o ex}} :
         ex \in ExplicitChoices, fdc \in FdcChoices}

\* A column no field is read from.
Unused(ty) == Col(ty, "vertex_indices")

\* Record layouts: the required columns as floats, as doubles, as a type
\* each, and as a type each among unused columns of one, eight and two bytes.
Layouts ==
  LET Typed(tys) == [k \in 1..11 |-> Col(tys[k], StdCols[k].name)]
      mixed == Typed(<<"Double", "Float", "UChar", "Short", "Int", "Char",
                       "UShort", "UInt", "Float", "Double", "UChar">>)
  IN  {StdCols,
       Typed([k \in 1..11 |-> "Double"]),
       mixed,
       <<Unused("UChar")>> \o SubSeq(mixed, 1, 3) \o <<Unused("Double")>> \o SubSeq(mixed, 4, 11)
       \o <<Unused("Short")>>}

\* The values of record k of a layout: small whole numbers, which every
\* type holds, 7 in the unused columns.
LayoutRecord(cols, k) ==
  LET std == IF k % 2 = 1 THEN <<"v1", "v2", "v3", "v1", "v2", "v3", "v1", "v0", "v0", "v0", "v1">>
             ELSE <<"v3", "v0", "v2", "v2", "v3", "v1", "v1", "v1", "v0", "v0", "v0">>
  IN  [j \in DOMAIN cols |->
         IF cols[j].name = "vertex_indices" THEN "v100"
         ELSE std[Cardinality({h \in 1..j : cols[h].name # "vertex_indices"})]]

\* Binary files of MaxCount records in these layouts, whole or cut by up to
\* one record and a byte.
FamLayout ==
  UNION {{[StdFile(enc, "Lf", "vertex", cols, MaxCount,
                   [k \in 1..MaxCount |-> LayoutRecord(cols, k)], cut,
                   [assume_log_scale |-> FALSE, assume_logit_opacity |-> FALSE])
             EXCEPT !.tag = "layout"] :
            enc \in {"Le", "Be"}, cut \in 0..(RecordBytes(cols) + 1)} :
         cols \in Layouts}

Inputs ==
  FamLayout \cup FamSource \cup FamAlias \cup FamAliasRot \cup FamDupFormat \cup FamDupProperty \cup FamIdent \cup FamHeader \cup FamZeroQuat \cup FamGood \cup FamTruncBinary \cup FamTruncOther \cup FamAsciiBad \cup FamHuge \cup FamPos
  \cup FamListVertex \cup FamListOther \cup FamCase \cup FamRot \cup FamColor \cup FamFdc

Init ==
  /\ input \in Inputs
  /\ bytes = Render(input)
  /\ opts = input.opts
  /\ pc = "parse_header"
  /\ hp = Free /\ header = Free /\ lay = Free /\ loop = Free /\ out = Free
  /\ result = Pending

Spec == Init /\ [][Next]_vars
----------------------------------------------------------------------------
(* find_header_end on its own, one iteration of its loop at a time, on     *)
(* buffers put together from a prefix, a sentinel, a terminator and a rest. *)

ScanPre ==
  [none |-> <<>>, x |-> <<120>>, ply |-> W.ply \o <<LF>>,
   part |-> SubSeq(PAT, 1, Len(PAT) - 1),
   bare |-> PAT \o <<120>>, cr |-> PAT \o <<CR, 120>>, crcr |-> PAT \o <<CR, CR, LF>>]
ScanMid ==
  [none |-> <<>>, pat |-> PAT, part |-> SubSeq(PAT, 1, Len(PAT) - 1),
   upper |-> <<69, 78, 68, 95, 72, 69, 65, 68, 69, 82>>]
ScanTerm ==
  [none |-> <<>>, lf |-> <<LF>>, crlf |-> <<CR, LF>>, cr |-> <<CR>>, crx |-> <<CR, 120>>,
   sp |-> <<32>>, splf |-> <<32, LF>>]
ScanPost == [none |-> <<>>, d |-> <<100>>, again |-> PAT \o <<LF>>]

ScanInputs ==
  [pre : DOMAIN ScanPre, mid : DOMAIN ScanMid, term : DOMAIN ScanTerm, post : DOMAIN ScanPost]

ScanBytes(in) == ScanPre[in.pre] \o ScanMid[in.mid] \o ScanTerm[in.term] \o ScanPost[in.post]

InitScan ==
  /\ input \in ScanInputs
  /\ bytes = ScanBytes(input)
  /\ opts = DefaultOpts
  /\ pc = "find_header_end"
  /\ hp = Free /\ header = Free /\ lay = Free /\ loop = Free /\ out = Free
  /\ result = Pending

\* Ok((end, newline))
Found(r) == [kind |-> "Ok", end |-> r.end, newline |-> r.newline]

\* The length test before the loop.
ScanBeginAct ==
  /\ pc = "find_header_end"
  /\ IF Len(bytes) < Len(PAT) THEN Return(Err(E_HeaderMalformed))
     ELSE /\ loop' = [i |-> 0]
          /\ pc' = "scan"
          /\ UNCHANGED <<input, bytes, opts, hp, header, lay, out, result>>

\* One iteration of the loop, at offset i.
ScanStepAct ==
  /\ pc = "scan"
  /\ loop.i <= Len(bytes) - Len(PAT)
  /\ IF HeaderEndsAt(bytes, loop.i) THEN Return(Found(HeaderEndAt(bytes, loop.i)))
     ELSE /\ loop' = [i |-> loop.i + 1]
          /\ UNCHANGED <<input, bytes, opts, pc, hp, header, lay, out, result>>

\* The error after the loop.
ScanEndAct ==
  /\ pc = "scan"
  /\ loop.i > Len(bytes) - Len(PAT)
  /\ Return(Err(E_HeaderMalformed))

NextScan ==
  \/ ScanBeginAct
  \/ ScanStepAct
  \/ ScanEndAct

SpecScan == InitScan /\ [][NextScan]_vars

----------------------------------------------------------------------------
(* The properties of the specification, claim by claim. *)

\* C1: the call never panics: for any bytes and any options it ends by
\* returning Ok or Err.  A vertex count too large for the output arrays makes
\* it panic instead.
C1_NeverPanics == pc = "done" => result.kind \in {"Ok", "Err"}

\* C2: the first record that cannot be decoded ends the call with its error:
\* no later record is decoded, the result is that error and carries no
\* buffer, and an Ok result is returned only after all N records were decoded.
C2_FirstErrorEndsCall ==
  /\ [](input.bad >= 0 /\ loop # Free => loop.i <= input.bad)
  /\ [](pc = "done" /\ input.bad >= 0 => result = Err(input.why))
  /\ [](pc = "done" /\ result.kind = "Err" => DOMAIN result = {"kind", "msg"} /\ out = Free)
  /\ [][result'.kind = "Ok" => loop.i = input.n /\ input.bad < 0]_vars

\* C2 happens: a file declaring MaxCount records whose first record already
\* cannot be decoded has ended in the error.
C2_Witness ==
  /\ pc = "done"
  /\ input.bad = 0
  /\ input.n = MaxCount
  /\ result = Err(input.why)

C4_BboxHoldsCenters ==
  pc = "done" /\ result.kind = "Ok" /\ result.count > 0 =>
    \A i \in 0..(result.count - 1), k \in 1..3 :
      /\ FLe(result.bbox_min[k], result.center[3 * i + k])
      /\ FLe(result.center[3 * i + k], result.bbox_max[k])
      /\ FLe(result.bbox_min[k], result.bbox_max[k])

\* At offset p the buffer holds end_header and then the terminator t.
C5_Terminated(p, t) ==
  /\ p + Len(PAT) + Len(t) <= Len(bytes)
  /\ SubSeq(bytes, p + 1, p + Len(PAT) + Len(t)) = PAT \o t

\* The offsets of the occurrences of end_header followed by LF or by CRLF.
C5_Occurrences ==
  {p \in 0..Len(bytes) : C5_Terminated(p, <<LF>>) \/ C5_Terminated(p, <<CR, LF>>)}

\* C5: find_header_end succeeds exactly when the buffer holds end_header
\* immediately followed by LF or CRLF; it then returns the offset just past
\* the terminator of the first such occurrence and the newline that
\* terminator is; any other buffer gives the HeaderMalformed error.  The
\* function on the whole buffer and its loop step by step agree.
C5_FindHeaderEnd ==
  pc = "done" =>
    /\ IF C5_Occurrences = {} THEN result = Err(E_HeaderMalformed)
       ELSE LET p == CHOOSE q \in C5_Occurrences : \A r \in C5_Occurrences : q <= r
            IN  IF C5_Terminated(p, <<LF>>)
                  THEN result = [kind |-> "Ok", end |-> p + Len(PAT) + 1, newline |-> "Lf"]
                  ELSE result = [kind |-> "Ok", end |-> p + Len(PAT) + 2, newline |-> "CrLf"]
    /\ (result.kind = "Ok") = FindHeaderEnd(bytes).ok
    /\ result.kind = "Ok" => result = Found(FindHeaderEnd(bytes))

\* C5 happens: the scan has passed an end_header followed by another byte and
\* returned at a later one followed by CRLF, before the end of the buffer.
C5_Witness ==
  /\ pc = "done"
  /\ input.pre = "bare"
  /\ input.term = "crlf"
  /\ result.kind = "Ok"
  /\ result.newline = "CrLf"
  /\ result.end < Len(bytes)

\* C6: a vertex element declaring a list property, wherever among its
\* properties, ends the call with the UnsupportedListProperty error: in
\* every format, with or without the required fields, before anything is
\* allocated or decoded.  A list property of another element does not give
\* this error.
C6_ListPropertyRejected ==
  /\ input.tag = "list_vertex" =>
       /\ out = Free /\ loop = Free
       /\ pc = "done" => result = Err(E_UnsupportedListProperty)
  /\ input.tag = "list_other" /\ pc = "done" => result # Err(E_UnsupportedListProperty)

\* C6 happens: a big-endian file without x whose vertex element declares a
\* list property first, and more records than memory holds, has been rejected.
C6_Witness ==
  /\ pc = "done"
  /\ input.tag = "list_vertex"
  /\ input.enc = "Be"
  /\ input.n = UsizeMax
  /\ input.head[4] = ListLine
  /\ Len(input.head) = 15
  /\ result = Err(E_UnsupportedListProperty)

\* The input with its vertex element under another name.
C7_Renamed(in, name) == [in EXCEPT !.head[3][2] = name]

\* C7: the vertex element is found whatever the letter case of its name: a
\* file gives the same result, the same error or the same buffers, as the
\* file that differs from it in that case only.
C7_CaseInsensitive ==
  pc = "done" /\ input.tag = "case" =>
    \A name \in VertexNames : result = Parse(Render(C7_Renamed(input, name)), opts, TRUE)

\* C7 happens: a file whose element is named VERTEX has been parsed to
\* MaxCount records.
C7_Witness ==
  /\ pc = "done"
  /\ input.tag = "case"
  /\ input.head[3][2] = "VERTEX"
  /\ result.kind = "Ok"
  /\ result.count = MaxCount

\* C8: a file declaring rot_0..rot_3 holding (w, x, y, z) and the file
\* declaring qx, qy, qz, qw holding (x, y, z, w) of the same quaternions
\* decode, in ASCII and in binary, to the same covariance for every record:
\* equal, and so within 1e-4.
C8_RotationEncodings ==
  pc = "done" /\ input.tag \in {"rot", "quat"} =>
    /\ result.kind = "Ok"
    /\ Parse(Render(OtherLayout(input)), opts, TRUE).kind = "Ok"
    /\ Parse(Render(OtherLayout(input)), opts, TRUE).covariance = result.covariance

\* C8 happens: a file with qx, qy, qz, qw holding (1, -1, 2, 1/2) has been
\* parsed, and its covariance is not that of the identity rotation.
C8_Witness ==
  /\ pc = "done"
  /\ input.tag = "quat"
  /\ SubSeq(input.recs[1], 7, 10) = <<"v1", "neg1", "v2", "half">>
  /\ result.kind = "Ok"
  /\ result.covariance[2] # Zero

\* The value a scalar of the pool stands for.
C9_Real ==
  [v0 |-> Zero, v1 |-> One, half |-> Q(1, 2), v2 |-> I2F(2), v3 |-> I2F(3), neg1 |-> I2F(-1),
   v200 |-> I2F(200), v100 |-> I2F(100), nan |-> NaN, inf |-> Inf, neginf |-> NegInf]

\* The value column j of record rec is decoded to: the number written, or
\* the integer its byte encodes.
C9_Value(in, rec, j) ==
  IF in.enc = "Ascii" \/ in.types[j] \in {"Float", "Double"} THEN C9_Real[rec[j]]
  ELSE IF in.types[j] = "Char" /\ Pool[rec[j]].u8 >= 128 THEN I2F(Pool[rec[j]].u8 - 256)
  ELSE I2F(Pool[rec[j]].u8)

\* x clamped to [0, 255] and floored; -1 for NaN, of which nothing is said.
C9_ClampFloor(x) ==
  IF IsNaN(x) THEN -1
  ELSE IF FLe(x, Zero) THEN 0
  ELSE IF FGe(x, I2F(255)) THEN 255
  ELSE CHOOSE m \in 0..254 : FLe(I2F(m), x) /\ FLt(x, I2F(m + 1))

\* Whether the colour of rec is taken as 0..1: in ASCII when its three
\* values are all <= 1, in binary unless its three types are all 8-bit.
C9_Scaled(in, rec) ==
  IF in.enc = "Ascii" THEN \A j \in 12..14 : FLe(C9_Value(in, rec, j), One)
  ELSE ~ \A j \in 12..14 : in.types[j] \in {"Char", "UChar"}

\* The three colour bytes of rec.
C9_Expected(in, rec) ==
  [k \in 1..3 |->
     C9_ClampFloor(IF C9_Scaled(in, rec) THEN FMul(C9_Value(in, rec, 11 + k), I2F(255))
                   ELSE C9_Value(in, rec, 11 + k))]

\* Channel k (R, G, B, A) of a packed colour, by shift and mask.
C9_Channel(p, k) ==
  CASE k = 1 -> p.lo % 256 [] k = 2 -> p.lo \div 256 [] k = 3 -> p.hi % 256 [] k = 4 -> p.hi \div 256

\* C9: with explicit R, G, B columns an ASCII record is scaled by 255 when
\* its three values are all <= 1 and taken as it is otherwise, a binary
\* record is taken as it is when the three declared types are 8-bit and
\* scaled by 255 otherwise; the result is clamped to [0, 255] and floored.
\* ASCII (0.5, 0.5, 0.5) gives (127, 127, 127) and (200, 0, 0) gives (200, 0, 0).
C9_ColourScaling ==
  pc = "done" /\ input.tag = "color" =>
    /\ result.kind = "Ok"
    /\ \A i \in 1..result.count :
         /\ \A k \in 1..3 :
              C9_Expected(input, input.recs[i])[k] \in {-1, C9_Channel(result.rgba[i], k)}
         /\ input.enc = "Ascii" /\ SubSeq(input.recs[i], 12, 14) = <<"half", "half", "half">>
              => [k \in 1..3 |-> C9_Channel(result.rgba[i], k)] = <<127, 127, 127>>
         /\ input.enc = "Ascii" /\ SubSeq(input.recs[i], 12, 14) = <<"v200", "v0", "v0">>
              => [k \in 1..3 |-> C9_Channel(result.rgba[i], k)] = <<200, 0, 0>>

\* C9 happens: an ASCII file whose first record has the colour
\* (0.5, 0.5, 0.5) and whose second has (200, 0, 0) has been parsed.
C9_Witness ==
  /\ pc = "done"
  /\ input.tag = "color"
  /\ input.enc = "Ascii"
  /\ SubSeq(input.recs[1], 12, 14) = <<"half", "half", "half">>
  /\ result.kind = "Ok"
  /\ [k \in 1..3 |-> C9_Channel(result.rgba[1], k)] = <<127, 127, 127>>
  /\ [k \in 1..3 |-> C9_Channel(result.rgba[2], k)] = <<200, 0, 0>>

\* The alpha byte of rec: its opacity, through the sigmoid when the options
\* say so, times 255.
C10_Alpha(in, rec) ==
  C9_ClampFloor(FMul(IF in.opts.assume_logit_opacity THEN sigmoid(C9_Value(in, rec, 11))
                     ELSE C9_Value(in, rec, 11),
                     I2F(255)))

\* The colour bytes of rec: explicit, from f_dc, or white.
C10_Rgb(in, rec) ==
  IF in.tag = "color" THEN C9_Expected(in, rec)
  ELSE IF in.tag = "fdc"
    THEN [k \in 1..3 |->
            C9_ClampFloor(FMul(FAdd(Q(1, 2), FMul(SH_C0, C9_Value(in, rec, 11 + k))), I2F(255)))]
  ELSE <<255, 255, 255>>

\* The same file in another format.
C10_Reencoded(in, enc) ==
  [in EXCEPT !.enc = enc,
             !.head = [k \in DOMAIN @ |->
                         IF @[k][1] = "format" THEN <<"format", FormatWord(enc), "1.0">> ELSE @[k]]]

\* The formats a file can be put in without its colours being read by
\* another rule.
C10_Formats(in) ==
  IF in.tag # "color" THEN Encs ELSE IF in.enc = "Ascii" THEN {"Ascii"} ELSE {"Le", "Be"}

\* C10: in a successful parse every channel of every record is an integer
\* in 0..255, the scaled value clamped to [0, 255] and floored, and rgba[i]
\* is R | G<<8 | B<<16 | A<<24; the same file in another format gives the
\* same rgba.  (The bytes are worked out for the files whose opacity is
\* column 11.)
C10_PackedChannels ==
  pc = "done" /\ result.kind = "Ok" /\ input.cut = 0 =>
    /\ \A i \in 1..(IF input.tag \in {"dup_property", "alias", "source", "layout"} THEN 0
                    ELSE result.count) :
         LET want == C10_Rgb(input, input.recs[i]) \o <<C10_Alpha(input, input.recs[i])>>
         IN  /\ \A k \in 1..4 : /\ C9_Channel(result.rgba[i], k) \in 0..255
                                 /\ want[k] \in {-1, C9_Channel(result.rgba[i], k)}
             /\ (\A k \in 1..4 : want[k] # -1) =>
                  result.rgba[i] = [lo |-> want[1] + 256 * want[2], hi |-> want[3] + 256 * want[4]]
    /\ \A e \in C10_Formats(input) :
         Parse(Render(C10_Reencoded(input, e)), opts, TRUE).rgba = result.rgba

\* C10 happens: a big-endian file has been parsed to a colour whose four
\* channels are all strictly between 0 and 255, with red and blue unequal.
C10_Witness ==
  /\ pc = "done"
  /\ result.kind = "Ok"
  /\ input.enc = "Be"
  /\ \E i \in 1..result.count :
       /\ \A k \in 1..4 : C9_Channel(result.rgba[i], k) \in 1..254
       /\ C9_Channel(result.rgba[i], 1) # C9_Channel(result.rgba[i], 3)

\* The covariance and alpha byte of record number i of the result.
C11_Record(i) ==
  [cov |-> SubSeq(result.covariance, 6 * i - 5, 6 * i), a |-> C9_Channel(result.rgba[i], 4)]

\* (sx^2, 0, 0, sy^2, 0, sz^2)
C11_Diagonal(s) == <<FMul(s[1], s[1]), Zero, Zero, FMul(s[2], s[2]), Zero, FMul(s[3], s[3])>>

C12_ZeroQuaternionFinite ==
  pc = "done" /\ input.tag = "zero_quat" =>
    /\ result.kind = "Ok"
    /\ \A j \in DOMAIN result.covariance : IsFinite(result.covariance[j])

\* The type a type word of the header names.
C13_Type ==
  [char |-> "Char", uchar |-> "UChar", short |-> "Short", ushort |-> "UShort",
   int |-> "Int", uint |-> "UInt", float |-> "Float", double |-> "Double"]

\* The property a property line declares.
C13_Property(line) ==
  IF line[2] = "list" THEN ListProp(FileWords[line[5]], C13_Type[line[3]], C13_Type[line[4]])
  ELSE ScalarProp(FileWords[line[3]], C13_Type[line[2]])

\* The element that element line e of the header declares: its name and
\* count, and the properties declared from there to line last.
C13_Element(in, e, last) ==
  [PlyElement(FileWords[in.head[e][2]], IF in.head[e][3] = "#" THEN in.n ELSE 0)
     EXCEPT !.properties =
       [k \in 1..Cardinality({j \in (e + 1)..last : in.head[j][1] = "property"}) |->
          C13_Property(in.head[CHOOSE j \in (e + 1)..last :
                                 /\ in.head[j][1] = "property"
                                 /\ Cardinality({h \in (e + 1)..j : in.head[h][1] = "property"}) = k])]]

\* The element lines among the first last lines of the header, in order.
C13_ElementLines(in, last) == Sorted({k \in 1..last : in.head[k][1] = "element"})

\* The elements declared by the first last lines of the header, the last of
\* them being the open one.
C13_Declared(in, last) ==
  LET At(es) == [j \in DOMAIN es |->
                   C13_Element(in, es[j], IF j < Len(es) THEN es[j + 1] - 1 ELSE last)]
  IN  At(C13_ElementLines(in, last))

\* C13: the header lines are taken in order, with at most one element open.
\* After each line the closed elements and the open one are the elements
\* declared so far, each with the properties declared since its element
\* line; an element line closes the open element and opens one without
\* properties; a property line with no element open ends the call with
\* PropertyBeforeElement; the end of the header closes the open element, so
\* that a parsed header lists every element line's element, in order, with
\* exactly its properties, in order.
C13_HeaderStateMachine ==
  /\ [](input.tag = "header" /\ pc = "header_loop" =>
          /\ Len(hp.current) <= 1
          /\ hp.elements \o hp.current = C13_Declared(input, hp.li - 1))
  /\ [](input.tag = "header" /\ pc = "resolve" =>
          header.elements = C13_Declared(input, Len(input.head) - 1))
  /\ [][input.tag = "header" /\ pc = "header_loop" /\ ~HeaderLoopDone(hp) =>
          /\ input.head[hp.li][1] = "element" =>
                /\ pc' = "header_loop"
                /\ hp'.elements = hp.elements \o hp.current
                /\ Len(hp'.current) = 1 /\ hp'.current[1].properties = <<>>
          /\ input.head[hp.li][1] = "property" /\ hp.current = None =>
                pc' = "done" /\ result' = Err(E_PropertyBeforeElement)
          /\ input.head[hp.li][1] = "property" /\ hp.current # None =>
                /\ pc' = "header_loop"
                /\ hp'.elements = hp.elements
                /\ hp'.current[1].properties =
                     Append(hp.current[1].properties, C13_Property(input.head[hp.li]))
          /\ pc' = "header_loop" => hp'.li = hp.li + 1]_vars
  /\ [][input.tag = "header" /\ pc = "header_loop" /\ pc' = "resolve" =>
          header'.elements = hp.elements \o hp.current]_vars

\* C13 happens: a header of two elements, each with a property of its own,
\* has been parsed.
C13_Witness ==
  /\ pc = "resolve"
  /\ input.tag = "header"
  /\ Len(header.elements) = 2
  /\ Len(header.elements[1].properties) = 1
  /\ Len(header.elements[2].properties) = 1
  /\ header.elements[1].properties # header.elements[2].properties

\* The format kind a format word names.
C14_Kind ==
  [ascii |-> "Ascii", binary_little_endian |-> "BinaryLittleEndian",
   binary_big_endian |-> "BinaryBigEndian"]

\* The last of the header lines that begin with the word w.
C14_Last(in, w) ==
  CHOOSE k \in DOMAIN in.head :
    in.head[k][1] = w /\ \A j \in DOMAIN in.head : in.head[j][1] = w => j <= k

\* The file with its format lines before the last turned into comments.
C14_OneFormat(in) ==
  [in EXCEPT !.head = [k \in DOMAIN @ |->
                         IF @[k][1] = "format" /\ k # C14_Last(in, "format")
                           THEN <<"comment", "x">> ELSE @[k]]]

\* A property name in lower case.
C14_Lower(name) ==
  CASE name = "X" -> "x" [] name = "SCALE_1" -> "scale_1" [] name = "OPACITY" -> "opacity"
    [] OTHER -> name

\* The property lines whose name is declared again further down.
C14_Shadowed(in) ==
  {k \in DOMAIN in.head :
     /\ in.head[k][1] = "property"
     /\ \E j \in (k + 1)..Len(in.head) :
          in.head[j][1] = "property" /\ C14_Lower(in.head[j][3]) = C14_Lower(in.head[k][3])}

\* The file with these declarations under a name the parser does not look
\* for: their bytes and columns stay where they are.
C14_Unshadowed(in) ==
  [in EXCEPT !.head = [k \in DOMAIN @ |->
                         IF k \in C14_Shadowed(in) THEN <<@[k][1], @[k][2], "vertex_indices">>
                         ELSE @[k]]]

\* The column of the last declaration of the name declared twice.
C14_LastColumn(in) ==
  CHOOSE j \in 1..Len(in.types) :
    /\ \E k \in C14_Shadowed(in) : C14_Lower(in.head[k][3]) = C14_Lower(in.head[3 + j][3])
    /\ 3 + j \notin C14_Shadowed(in)

\* C14: duplicates give no error and the last one wins.  With several format
\* lines the result has the format of the last and is the result of the file
\* with that format line only.  With a property name declared more than once
\* in the vertex element, in whatever case, the result is that of the file
\* whose earlier declarations keep their place under another name: the
\* field is read at the last declaration, as its type, and x is the value
\* stored there.
C14_LastOneWins ==
  /\ pc = "done" /\ input.tag = "dup_format" =>
       /\ result.kind = "Ok"
       /\ result.format = C14_Kind[input.head[C14_Last(input, "format")][2]]
       /\ result = Parse(Render(C14_OneFormat(input)), opts, TRUE)
  /\ pc = "done" /\ input.tag = "dup_property" =>
       /\ result.kind = "Ok"
       /\ result = Parse(Render(C14_Unshadowed(input)), opts, TRUE)
       /\ C14_Lower(input.head[3 + C14_LastColumn(input)][3]) = "x" =>
            \A i \in 1..result.count :
              result.center[3 * i - 2] = C9_Value(input, input.recs[i], C14_LastColumn(input))

\* C14 happens: a little-endian file declaring x three times, first and last
\* as a byte, has been parsed, and x is the 3 of the last declaration.
C14_Witness ==
  /\ pc = "done"
  /\ input.tag = "dup_property"
  /\ input.enc = "Le"
  /\ Cardinality(C14_Shadowed(input)) = 2
  /\ input.types[1] = "UChar"
  /\ input.head[4][3] = "X"
  /\ result.kind = "Ok"
  /\ result.center[1] = I2F(3)

\* The names of the required fields, in the order they are looked for.
C15_Names ==
  [x |-> <<"x", "pos_x", "position_x">>, y |-> <<"y", "pos_y", "position_y">>,
   z |-> <<"z", "pos_z", "position_z">>,
   scale_0 |-> <<"scale_0", "sx", "scale_x", "scalex">>,
   scale_1 |-> <<"scale_1", "sy", "scale_y", "scaley">>,
   scale_2 |-> <<"scale_2", "sz", "scale_z", "scalez">>,
   opacity |-> <<"opacity", "alpha", "opac">>]

\* The column declared under name, 0 when there is none.
C15_Column(in, name) ==
  IF \E j \in DOMAIN in.types : in.head[3 + j][3] = name
    THEN CHOOSE j \in DOMAIN in.types : in.head[3 + j][3] = name
  ELSE 0

\* The column of the first of names that is declared, 0 when none is.
C15_First(in, names) ==
  IF \A k \in DOMAIN names : C15_Column(in, names[k]) = 0 THEN 0
  ELSE C15_Column(in, names[CHOOSE k \in DOMAIN names :
                              /\ C15_Column(in, names[k]) # 0
                              /\ \A j \in 1..(k - 1) : C15_Column(in, names[j]) = 0])

\* The columns the quaternion (x, y, z, w) is read from: rot_1, rot_2,
\* rot_3, rot_0 when all four are declared, else qx, qy, qz, qw when all
\* four are, else none.
C15_Rotation(in) ==
  LET At(names) == [k \in 1..4 |-> C15_Column(in, names[k])]
      All(cols) == \A k \in 1..4 : cols[k] # 0
  IN  IF All(At(<<"rot_0", "rot_1", "rot_2", "rot_3">>))
        THEN At(<<"rot_1", "rot_2", "rot_3", "rot_0">>)
      ELSE IF All(At(<<"qx", "qy", "qz", "qw">>)) THEN At(<<"qx", "qy", "qz", "qw">>)
      ELSE <<>>

\* The errors for the required fields that are declared under no name.
C15_Missing(in) ==
  {"PLY: missing " \o f \o " in vertex" :
     f \in {g \in DOMAIN C15_Names : C15_First(in, C15_Names[g]) = 0}}
  \cup (IF C15_Rotation(in) = <<>> THEN {E_MissingQuat} ELSE {})

\* The one record of the result, from the columns the fields resolve to
\* (scales and opacity taken as they are stored).
C15_Expected(in) ==
  LET V(j) == C9_Value(in, in.recs[1], j)
      F(f) == V(C15_First(in, C15_Names[f]))
      Turned(q) == covariance_from_quat_scale(V(q[1]), V(q[2]), V(q[3]), V(q[4]),
                                              F("scale_0"), F("scale_1"), F("scale_2"))
  IN  [center |-> <<F("x"), F("y"), F("z")>>,
       covariance |-> Turned(C15_Rotation(in)),
       a |-> C9_ClampFloor(FMul(F("opacity"), I2F(255)))]

\* C15: every required field is read from the first of its names that is
\* declared, in the fixed order of the names and not in the order of the
\* declarations; the rotation from rot_0..rot_3 as (w, x, y, z) when all
\* four are declared, else from qx, qy, qz, qw as (x, y, z, w) when all
\* four are; a field declared under no name ends the call with the error
\* that names it.  The three formats resolve alike.
C15_AliasPriority ==
  pc = "done" /\ input.tag = "alias" =>
    IF C15_Missing(input) # {}
      THEN result.kind = "Err" /\ result.msg \in C15_Missing(input)
    ELSE /\ result.kind = "Ok"
         /\ result.count = 1
         /\ [center |-> result.center, covariance |-> result.covariance,
              a |-> C9_Channel(result.rgba[1], 4)] = C15_Expected(input)

\* C15 happens: a big-endian file declaring position_x, then pos_x, then x
\* has been parsed, and x is the value stored under x.
C15_Witness ==
  /\ pc = "done"
  /\ input.tag = "alias"
  /\ input.enc = "Be"
  /\ Len(input.types) = 13
  /\ [k \in 1..3 |-> input.head[13 + k][3]] = <<"position_x", "pos_x", "x">>
  /\ result.kind = "Ok"
  /\ result.center[1] = Q(1, 2)

\* The columns of the explicit triple and of the f_dc triple; a 0 where the
\* channel is declared under no name.
C16_Explicit(in) ==
  <<C15_First(in, <<"red", "r">>), C15_First(in, <<"green", "g">>), C15_First(in, <<"blue", "b">>)>>
C16_Fdc(in) ==
  <<C15_Column(in, "f_dc_0"), C15_Column(in, "f_dc_1"), C15_Column(in, "f_dc_2")>>

\* The colour bytes of rec by the precedence of the sources; the explicit
\* values of these files are numbers up to 1 in float columns, and so are
\* scaled by 255.
C16_Rgb(in, rec) ==
  IF \A k \in 1..3 : C16_Explicit(in)[k] # 0
    THEN [k \in 1..3 |-> C9_ClampFloor(FMul(C9_Value(in, rec, C16_Explicit(in)[k]), I2F(255)))]
  ELSE IF \A k \in 1..3 : C16_Fdc(in)[k] # 0
    THEN [k \in 1..3 |->
            C9_ClampFloor(FMul(FAdd(Q(1, 2), FMul(SH_C0, C9_Value(in, rec, C16_Fdc(in)[k]))),
                               I2F(255)))]
  ELSE <<255, 255, 255>>

\* C16: the colour of every record comes from the explicit triple red|r,
\* green|g, blue|b when all three channels are declared, else from f_dc_0,
\* f_dc_1, f_dc_2 when all three are declared, as (0.5 + C0 * f) * 255, else
\* it is white; a triple declared in part is not used.  The alpha byte comes
\* from the opacity in all three cases.
C16_ColourSource ==
  pc = "done" /\ input.tag = "source" =>
    /\ result.kind = "Ok"
    /\ result.count = MaxCount
    /\ \A i \in 1..result.count :
         /\ [k \in 1..3 |-> C9_Channel(result.rgba[i], k)] = C16_Rgb(input, input.recs[i])
         /\ C9_Channel(result.rgba[i], 4) = C10_Alpha(input, input.recs[i])
         /\ C9_Channel(result.rgba[i], 4) = 158

\* C16 happens: a file declaring red and green but not blue, and the three
\* f_dc columns before them, has been parsed to the colour of the f_dc
\* values (1, -1, 0).
C16_Witness ==
  /\ pc = "done"
  /\ input.tag = "source"
  /\ C16_Explicit(input) = <<15, 16, 0>>
  /\ C16_Fdc(input) = <<12, 13, 14>>
  /\ result.kind = "Ok"
  /\ [k \in 1..4 |-> C9_Channel(result.rgba[1], k)] = <<199, 55, 127, 158>>

\* The bytes a value of each type takes.
C17_Width ==
  [Char |-> 1, UChar |-> 1, Short |-> 2, UShort |-> 2, Int |-> 4, UInt |-> 4, Float |-> 4,
   Double |-> 8]

\* The bytes the first n columns of a record take.
RECURSIVE C17_Sum(_, _)
C17_Sum(types, n) == IF n = 0 THEN 0 ELSE C17_Sum(types, n - 1) + C17_Width[types[n]]

\* Where the data begin: the length of the header.
C17_DataOffset(in) == Len(Render([in EXCEPT !.recs = <<>>, !.cut = 0]))

\* The columns a field is read from.
C17_Read(in) == {j \in DOMAIN in.types : in.head[3 + j][3] # "vertex_indices"}

\* Whether column j of record i (from 0) lies inside the buffer.
C17_Inside(in, i, j) ==
  C17_DataOffset(in) + i * C17_Sum(in.types, Len(in.types)) + C17_Sum(in.types, j) <= Len(bytes)

\* Record rec decoded: position, covariance and alpha byte from the values
\* of its columns (scales and opacity taken as they are stored).
C17_Decoded(in, rec) ==
  LET V(name) == C9_Value(in, rec, C15_Column(in, name))
  IN  [center |-> <<V("x"), V("y"), V("z")>>,
       covariance |-> covariance_from_quat_scale(V("rot_1"), V("rot_2"), V("rot_3"), V("rot_0"),
                                                 V("scale_0"), V("scale_1"), V("scale_2")),
       a |-> C9_ClampFloor(FMul(V("opacity"), I2F(255)))]

\* Record number i (from 1) of the arrays.
C17_Stored(arrays, i) ==
  [center |-> SubSeq(arrays.center, 3 * i - 2, 3 * i),
   covariance |-> SubSeq(arrays.covariance, 6 * i - 5, 6 * i),
   a |-> C9_Channel(arrays.rgba[i], 4)]

\* C17: in binary mode a property's offset is the sum of the widths of the
\* properties declared before it and the stride the sum of all widths; the
\* records are read one after the other from i = 0, record i at
\* data_offset + i * stride, each field at its offset and in the byte order
\* of the format, so that it decodes to the value stored there; a record
\* with a field that is read and does not end inside the buffer ends the
\* call with the Truncated error, and only then; a successful parse has
\* read the N records.
C17_BinaryLayout ==
  /\ [](input.tag = "layout" /\ pc = "binary_loop" =>
          /\ loop.offsets = [k \in DOMAIN input.types |-> C17_Sum(input.types, k - 1)]
          /\ loop.stride = C17_Sum(input.types, Len(input.types))
          /\ loop.i \in 0..input.n
          /\ loop.base = C17_DataOffset(input) + loop.i * loop.stride
          /\ \A i \in 1..loop.i : C17_Stored(out, i) = C17_Decoded(input, input.recs[i]))
  /\ [][input.tag = "layout" /\ pc = "binary_setup" => loop'.i = 0]_vars
  /\ [][input.tag = "layout" /\ pc = "binary_loop" /\ loop.i < input.n =>
          IF \A j \in C17_Read(input) : C17_Inside(input, loop.i, j)
            THEN pc' = "binary_loop" /\ loop'.i = loop.i + 1
          ELSE pc' = "done" /\ result' = Err(E_Truncated)]_vars
  /\ [](input.tag = "layout" /\ pc = "done" /\ result.kind = "Ok" =>
          /\ result.count = input.n
          /\ \A i \in 1..input.n : \A j \in C17_Read(input) : C17_Inside(input, i - 1, j)
          /\ \A i \in 1..input.n : C17_Stored(result, i) = C17_Decoded(input, input.recs[i]))

\* C17 happens: a little-endian file of columns of one, two, four and eight
\* bytes, cut in the unused last column of its last record, has been parsed
\* whole.
C17_Witness ==
  /\ pc = "done"
  /\ input.tag = "layout"
  /\ input.enc = "Le"
  /\ Len(input.types) = 14
  /\ input.cut = 2
  /\ result.kind = "Ok"
  /\ result.count = MaxCount
  /\ result.center[3] = I2F(3)

====
